---- MODULE Spec2Model ----
(***************************************************************************)
(* A model of llocg-backend-api: the reference-table handlers with their   *)
(* RwLock-protected caches (src/src/handlers), and the card creation unit  *)
(* of work with the full-card reader (src/src/db.rs).                      *)
(***************************************************************************)
EXTENDS Integers, Sequences, FiniteSets, TLC

VARIABLES
    db,     \* the committed content of the SQLite database, one field per table
    cache,  \* ApiState's seven caches, by table name
    lock,   \* the RwLock of each cache: its writer (0: none) and its readers
    req,    \* the reference-table requests in flight, by request id
    tx,     \* the open sqlx::Transaction: its uncommitted view of the database
    job     \* the card creation request in flight (POST /cards, POST /cards/bulk)

vars == <<db, cache, lock, req, tx, job>>

(***************************************************************************)
(* Bounds of the model.                                                    *)
(***************************************************************************)
\* Number of reference-table requests (add, delete, get_all) of one behaviour.
NumReq == 3

Reqs == 1..NumReq

\* Longest groups, units and skills lists of a creation payload.
MaxGroups == 2
MaxUnits == 1
MaxSkills == 1
\* Longest batch of POST /cards/bulk, and the payloads of one behaviour.
MaxBatch == 2
MaxPayloads == 2
\* Longest card_identifier, in tokens, and the request bodies deserialized in
\* one behaviour.
MaxIdLen == 7
MaxBodies == 1

(***************************************************************************)
(* Tables and caches.                                                      *)
(***************************************************************************)
NoVal == "-"

\* The caches that are HashMaps written under the write lock (lock first).
MapTables == {"rarities", "name_variants", "group_variants"}
\* The caches that are Vecs reloaded from storage after a write.
RefreshTables == {"sets", "groups", "units"}
RefTables == MapTables \cup RefreshTables
Caches == RefTables \cup {"names"}

\* The keys and values requests carry, per table.
KeysOf(T) ==
    CASE T = "rarities" -> {"R", "P"}
      [] T = "name_variants" -> {"a", "b"}
      [] T = "group_variants" -> {"gv", "gw"}
      [] T = "sets" -> {"s1", "s2"}
      [] T = "groups" -> {"g1", "g2"}
      [] T = "units" -> {"u1", "u2"}

ValsOf(T) ==
    CASE T = "rarities" -> {"Regular", "Parallel"}
      [] T = "name_variants" -> {"b", "c"}
      [] T = "group_variants" -> {"g1", "gx"}
      [] T = "sets" -> {"Set One", "Set Two"}
      [] T = "groups" -> {NoVal}
      [] T = "units" -> {NoVal}

Entry(k, v) == [key |-> k, val |-> v]

MaxId(rows) == IF rows = {} THEN 0 ELSE CHOOSE n \in {r.id : r \in rows} : \A r \in rows : r.id <= n

\* The rows of reference table T in database d, as cache entries: what
\* "SELECT rarity_code, rarity_type FROM rarities", fetch_all_sets,
\* fetch_all_groups, fetch_all_units and fetch_all_card_names return.
RefRows(d, T) ==
    CASE T = "rarities" -> d.rarities
      [] T = "name_variants" -> d.name_variants
      [] T = "group_variants" -> d.group_variants
      [] T = "sets" -> d.sets
      [] T = "groups" -> {Entry(g.name, NoVal) : g \in d.groups}
      [] T = "units" -> {Entry(u.name, NoVal) : u \in d.units}
      [] T = "names" -> {Entry(n.name, NoVal) : n \in d.names}

HasKey(rows, k) == \E e \in rows : e.key = k

\* A table without a uniqueness constraint never reports a violation.
UniqueViolation_NoConstraint(d, T, k) == FALSE

\* The storage's uniqueness constraint on the key column of table T.
UniqueViolation(d, T, k) == HasKey(RefRows(d, T), k)

\* INSERT INTO <T> ... VALUES (k, v): the database with the row added.
InsertRow(d, T, k, v) ==
    CASE T = "rarities" -> [d EXCEPT !.rarities = @ \cup {Entry(k, v)}]
      [] T = "name_variants" -> [d EXCEPT !.name_variants = @ \cup {Entry(k, v)}]
      [] T = "group_variants" -> [d EXCEPT !.group_variants = @ \cup {Entry(k, v)}]
      [] T = "sets" -> [d EXCEPT !.sets = @ \cup {Entry(k, v)}]
      [] T = "groups" -> [d EXCEPT !.groups = @ \cup {[id |-> MaxId(@) + 1, name |-> k]}]
      [] T = "units" -> [d EXCEPT !.units = @ \cup {[id |-> MaxId(@) + 1, name |-> k]}]

\* A delete of a rarity that would take the printings of that rarity with it.
DeleteRow_Cascades(d, T, k) ==
    IF T = "rarities"
    THEN [d EXCEPT !.rarities = {e \in @ : e.key # k},
                   !.printings = {pr \in @ : pr.rarity_code # k}]
    ELSE IF T \in {"groups", "units"}
    THEN [d EXCEPT ![T] = {g \in @ : g.name # k}]
    ELSE [d EXCEPT ![T] = {e \in @ : e.key # k}]

\* DELETE FROM <T> WHERE <key column> = k: the database without the rows.
DeleteRow(d, T, k) ==
    CASE T = "rarities" -> [d EXCEPT !.rarities = {e \in @ : e.key # k}]
      [] T = "name_variants" -> [d EXCEPT !.name_variants = {e \in @ : e.key # k}]
      [] T = "group_variants" -> [d EXCEPT !.group_variants = {e \in @ : e.key # k}]
      [] T = "sets" -> [d EXCEPT !.sets = {e \in @ : e.key # k}]
      [] T = "groups" -> [d EXCEPT !.groups = {g \in @ : g.name # k}]
      [] T = "units" -> [d EXCEPT !.units = {u \in @ : u.name # k}]

\* The number of rows of table T whose key column is k.
RowCount(d, T, k) ==
    CASE T = "rarities" -> Cardinality({e \in d.rarities : e.key = k})
      [] T = "name_variants" -> Cardinality({e \in d.name_variants : e.key = k})
      [] T = "group_variants" -> Cardinality({e \in d.group_variants : e.key = k})
      [] T = "sets" -> Cardinality({e \in d.sets : e.key = k})
      [] T = "groups" -> Cardinality({g \in d.groups : g.name = k})
      [] T = "units" -> Cardinality({u \in d.units : u.name = k})

\* rows_affected() of the DELETE.
RowsAffected(d, T, k) == RowCount(d, T, k)

\* A delete that takes every DELETE to have removed a row.
Affected_Always(rows) == TRUE

\* if result.rows_affected() > 0
Affected(rows) == rows > 0

(***************************************************************************)
(* The RwLock of a cache (tokio::sync::RwLock).                            *)
(***************************************************************************)
NoLock == [w |-> 0, r |-> {}]

\* A write lock that would be granted while readers hold the lock.
CanWrite_IgnoresReaders(T) == lock[T].w = 0

CanWrite(T) == lock[T].w = 0 /\ lock[T].r = {}
CanRead(T) == lock[T].w = 0

(***************************************************************************)
(* Requests on the reference tables.                                       *)
(***************************************************************************)
Idle == [op |-> "none", tbl |-> "none", key |-> NoVal, val |-> NoVal, pc |-> "idle",
         result |-> "none", rows |-> 0, fetched |-> {}, fault |-> "none",
         absent |-> FALSE, midWrite |-> FALSE,
         id |-> 0, row |-> <<>>, reads |-> {}, got |-> <<>>, card |-> <<>>]

\* The card tables of a database with no card.
NoCards ==
    [names |-> {}, skills |-> {}, cards |-> {}, character_cards |-> {}, live_cards |-> {},
     printings |-> {}, card_hearts |-> {}, card_groups |-> <<>>, card_units |-> <<>>,
     card_skills |-> <<>>]

WithRefs(ra, nv, gv, se, gr, un) ==
    [rarities |-> ra, name_variants |-> nv, group_variants |-> gv, sets |-> se,
     groups |-> gr, units |-> un,
     names |-> {}, skills |-> {}, cards |-> {}, character_cards |-> {}, live_cards |-> {},
     printings |-> {}, card_hearts |-> {}, card_groups |-> <<>>, card_units |-> <<>>,
     card_skills |-> <<>>]

EmptyDb == WithRefs({}, {}, {}, {}, {}, {})

\* A database as the migrations seed it: some reference rows are present.
SeededDb ==
    WithRefs({Entry("P", "Parallel")}, {Entry("a", "b")}, {Entry("gv", "g1")},
             {Entry("s1", "Set One")}, {[id |-> 1, name |-> "g1"]}, {[id |-> 1, name |-> "u1"]})

\* No transaction is open; no creation request is in flight.
NoTx == [open |-> FALSE, d |-> EmptyDb]

NoJob ==
    [kind |-> "none", pc |-> "idle", batch |-> <<>>, idx |-> 0, li |-> 0,
     name_id |-> 0, card_id |-> 0, ids |-> <<>>, cards |-> <<>>,
     status |-> "none", err |-> "none", errName |-> NoVal, failedAt |-> "none",
     commits |-> 0, used |-> 0, pre |-> EmptyDb, raw |-> <<>>, parts |-> <<>>]

\* create_app_state_with_pool: every cache is loaded from its table.
LoadCaches(d) == [T \in Caches |-> RefRows(d, T)]

InitRef ==
    /\ db \in {EmptyDb, SeededDb}
    /\ cache = LoadCaches(db)
    /\ lock = [T \in Caches |-> NoLock]
    /\ req = [r \in Reqs |-> Idle]
    /\ tx = NoTx
    /\ job = NoJob

\* The tables a new request can address. The handlers of two tables share no
\* lock and no row, so one behaviour follows the requests on one table.
Addressable == {T \in RefTables : \A q \in Reqs : req[q].tbl \in {"none", T}}

\* A request arrives: the router hands it to add, delete or get_all of a table.
StartAdd(r) ==
    /\ req[r].pc = "idle"
    /\ \E T \in Addressable : \E k \in KeysOf(T), v \in ValsOf(T) :
        req' = [req EXCEPT ![r] =
                  [Idle EXCEPT !.op = "add", !.tbl = T, !.key = k, !.val = v, !.pc = "start",
                               !.absent = ~HasKey(RefRows(db, T), k)]]
    /\ UNCHANGED <<db, cache, lock, tx, job>>

StartDelete(r) ==
    /\ req[r].pc = "idle"
    /\ \E T \in Addressable : \E k \in KeysOf(T) :
        req' = [req EXCEPT ![r] =
                  [Idle EXCEPT !.op = "delete", !.tbl = T, !.key = k, !.pc = "start"]]
    /\ UNCHANGED <<db, cache, lock, tx, job>>

StartGetAll(r) ==
    /\ req[r].pc = "idle"
    /\ \E T \in Addressable :
        req' = [req EXCEPT ![r] = [Idle EXCEPT !.op = "get_all", !.tbl = T, !.pc = "start"]]
    /\ UNCHANGED <<db, cache, lock, tx, job>>

\* A handler returns: its guards are dropped and the response is fixed.
Return(r, res, flt) == [req[r] EXCEPT !.pc = "done", !.result = res, !.fault = flt]

\* A return that would keep the guards of the handler.
Release_KeepsLock(T, r) == lock

\* The guards of request r on cache T are dropped.
Release(T, r) == [lock EXCEPT ![T] = [w |-> IF @.w = r THEN 0 ELSE @.w, r |-> @.r \ {r}]]

\* What a storage call can report. A statement can fail for a reason of the
\* storage engine's own at any time; an INSERT also fails on a duplicate key.
InsertOutcomes(d, T, k) ==
    (IF UniqueViolation(d, T, k) THEN {"unique"} ELSE {"ok"}) \cup {"error"}

StorageOutcomes == {"ok", "error"}

(***************************************************************************)
(* rarities, name_variants, group_variants: add and delete take the write  *)
(* lock first.                                                             *)
(***************************************************************************)
\* HashMap::insert.
CacheInsert(c, k, v) == {e \in c : e.key # k} \cup {Entry(k, v)}

\* Error arms that would insert the entry all the same.
CacheOnAddError_Inserts(c, k, v) == CacheInsert(c, k, v)

\* The error arms of add: the cache is not touched.
CacheOnAddError(c, k, v) == c

\* delete: cache.remove(&code) if rows_affected() > 0.
RemoveIfAffected(c, k, rows) == IF Affected(rows) THEN {e \in c : e.key # k} ELSE c

\* state.rarity_cache.write().await
MapLock(r) ==
    /\ req[r].pc = "start"
    /\ req[r].op \in {"add", "delete"}
    /\ req[r].tbl \in MapTables
    /\ CanWrite(req[r].tbl)
    /\ lock' = [lock EXCEPT ![req[r].tbl].w = r]
    /\ req' = [req EXCEPT ![r].pc = IF req[r].op = "add" THEN "check" ELSE "exec"]
    /\ UNCHANGED <<db, cache, tx, job>>

\* if cache.contains_key(..) { return Err(CONFLICT) }
MapAddCheck(r) ==
    LET T == req[r].tbl IN
    /\ req[r].pc = "check"
    /\ IF HasKey(cache[T], req[r].key)
       THEN /\ req' = [req EXCEPT ![r] = Return(r, "Conflict", "none")]
            /\ lock' = Release(T, r)
       ELSE /\ req' = [req EXCEPT ![r].pc = "insert"]
            /\ UNCHANGED lock
    /\ UNCHANGED <<db, cache, tx, job>>

\* match db::add_rarity(..).await: the INSERT and the error arms.
MapAddInsert(r) ==
    LET T == req[r].tbl
        k == req[r].key
        v == req[r].val
    IN
    /\ req[r].pc = "insert"
    /\ \E out \in InsertOutcomes(db, T, k) :
        IF out = "ok"
        THEN /\ db' = InsertRow(db, T, k, v)
             /\ req' = [req EXCEPT ![r].pc = "update"]
             /\ UNCHANGED <<cache, lock>>
        ELSE /\ cache' = [cache EXCEPT ![T] = CacheOnAddError(@, k, v)]
             /\ req' = [req EXCEPT ![r] =
                   Return(r, IF out = "unique" THEN "Conflict" ELSE "InternalError", out)]
             /\ lock' = Release(T, r)
             /\ UNCHANGED db
    /\ UNCHANGED <<tx, job>>

\* Ok(_) => { cache.insert(..); Ok(CREATED) }
MapAddUpdate(r) ==
    LET T == req[r].tbl IN
    /\ req[r].pc = "update"
    /\ req[r].op = "add"
    /\ T \in MapTables
    /\ cache' = [cache EXCEPT ![T] = CacheInsert(@, req[r].key, req[r].val)]
    /\ req' = [req EXCEPT ![r] = Return(r, "Created", "none")]
    /\ lock' = Release(T, r)
    /\ UNCHANGED <<db, tx, job>>

\* db::delete_rarity(..).await.map_err(..)?
MapDeleteExec(r) ==
    LET T == req[r].tbl
        k == req[r].key
    IN
    /\ req[r].pc = "exec"
    /\ \E out \in StorageOutcomes :
        IF out = "ok"
        THEN /\ db' = DeleteRow(db, T, k)
             /\ req' = [req EXCEPT ![r].pc = "update", ![r].rows = RowsAffected(db, T, k)]
             /\ UNCHANGED <<cache, lock>>
        ELSE /\ req' = [req EXCEPT ![r] = Return(r, "InternalError", out)]
             /\ lock' = Release(T, r)
             /\ UNCHANGED <<db, cache>>
    /\ UNCHANGED <<tx, job>>

\* if result.rows_affected() > 0 { cache.remove(..) }; Ok(NO_CONTENT)
MapDeleteUpdate(r) ==
    LET T == req[r].tbl IN
    /\ req[r].pc = "update"
    /\ req[r].op = "delete"
    /\ T \in MapTables
    /\ cache' = [cache EXCEPT ![T] = RemoveIfAffected(@, req[r].key, req[r].rows)]
    /\ req' = [req EXCEPT ![r] = Return(r, "NoContent", "none")]
    /\ lock' = Release(T, r)
    /\ UNCHANGED <<db, tx, job>>

(***************************************************************************)
(* sets, groups, units: add and delete write storage first, then take the  *)
(* write lock and reload the cache.                                        *)
(***************************************************************************)
\* Result::unwrap_or_default of the reload: the rows read, or an empty Vec.
UnwrapOrDefault(out, rows, old) == IF out = "ok" THEN rows ELSE {}

\* match db::add_set(..).await
RefreshAddInsert(r) ==
    LET T == req[r].tbl
        k == req[r].key
        v == req[r].val
    IN
    /\ req[r].pc = "start"
    /\ req[r].op = "add"
    /\ T \in RefreshTables
    /\ \E out \in InsertOutcomes(db, T, k) :
        IF out = "ok"
        THEN /\ db' = InsertRow(db, T, k, v)
             /\ req' = [req EXCEPT ![r].pc = "lock"]
        ELSE /\ req' = [req EXCEPT ![r] =
                   Return(r, IF out = "unique" THEN "Conflict" ELSE "InternalError", out)]
             /\ UNCHANGED db
    /\ UNCHANGED <<cache, lock, tx, job>>

\* db::delete_set(..).await.map_err(..)?; if result.rows_affected() > 0 { .. }
RefreshDeleteExec(r) ==
    LET T == req[r].tbl
        k == req[r].key
    IN
    /\ req[r].pc = "start"
    /\ req[r].op = "delete"
    /\ T \in RefreshTables
    /\ \E out \in StorageOutcomes :
        IF out = "ok"
        THEN /\ db' = DeleteRow(db, T, k)
             /\ req' = [req EXCEPT ![r] =
                   IF Affected(RowsAffected(db, T, k))
                   THEN [req[r] EXCEPT !.pc = "lock", !.rows = RowsAffected(db, T, k)]
                   ELSE Return(r, "NoContent", "none")]
        ELSE /\ req' = [req EXCEPT ![r] = Return(r, "InternalError", out)]
             /\ UNCHANGED db
    /\ UNCHANGED <<cache, lock, tx, job>>

\* let mut cache = state.sets_cache.write().await;
RefreshLock(r) ==
    /\ req[r].pc = "lock"
    /\ CanWrite(req[r].tbl)
    /\ lock' = [lock EXCEPT ![req[r].tbl].w = r]
    /\ req' = [req EXCEPT ![r].pc = "fetch"]
    /\ UNCHANGED <<db, cache, tx, job>>

\* db::fetch_all_sets(&state.pool).await.unwrap_or_default()
RefreshFetch(r) ==
    LET T == req[r].tbl IN
    /\ req[r].pc = "fetch"
    /\ \E out \in StorageOutcomes :
        req' = [req EXCEPT ![r].pc = "assign",
                           ![r].fetched = UnwrapOrDefault(out, RefRows(db, T), cache[T]),
                           ![r].fault = IF out = "ok" THEN "none" ELSE "refresh"]
    /\ UNCHANGED <<db, cache, lock, tx, job>>

\* *cache = ..; Ok(CREATED) or Ok(NO_CONTENT)
RefreshAssign(r) ==
    LET T == req[r].tbl IN
    /\ req[r].pc = "assign"
    /\ cache' = [cache EXCEPT ![T] = req[r].fetched]
    /\ req' = [req EXCEPT ![r] =
          Return(r, IF req[r].op = "add" THEN "Created" ELSE "NoContent", req[r].fault)]
    /\ lock' = Release(T, r)
    /\ UNCHANGED <<db, tx, job>>

(***************************************************************************)
(* get_all of a reference table: a clone of the cache under the read lock. *)
(***************************************************************************)
\* Whether request q has written storage and not yet updated its cache.
MidWrite(q) == req[q].pc \in {"update", "lock", "fetch", "assign"}

GetAll(r) ==
    LET T == req[r].tbl IN
    /\ req[r].pc = "start"
    /\ req[r].op = "get_all"
    /\ CanRead(T)
    /\ req' = [req EXCEPT ![r] =
          [Return(r, "Ok", "none") EXCEPT
              !.fetched = cache[T],
              !.midWrite = \E q \in Reqs \ {r} : req[q].tbl = T /\ MidWrite(q)]]
    /\ UNCHANGED <<db, cache, lock, tx, job>>

(***************************************************************************)
(* Another process that writes the same database file (the case the add    *)
(* handlers' unique-violation arm is written for).                         *)
(***************************************************************************)
ExternalWrite ==
    /\ \E T \in {req[q].tbl : q \in Reqs} \cap MapTables : \E k \in KeysOf(T), v \in ValsOf(T) :
        /\ ~UniqueViolation(db, T, k)
        /\ db' = InsertRow(db, T, k, v)
    /\ UNCHANGED <<cache, lock, req, tx, job>>

(***************************************************************************)
(* The reference-table handlers under concurrent requests.                 *)
(***************************************************************************)
RefStep(r) ==
    \/ StartAdd(r)
    \/ StartDelete(r)
    \/ StartGetAll(r)
    \/ MapLock(r)
    \/ MapAddCheck(r)
    \/ MapAddInsert(r)
    \/ MapAddUpdate(r)
    \/ MapDeleteExec(r)
    \/ MapDeleteUpdate(r)
    \/ RefreshAddInsert(r)
    \/ RefreshDeleteExec(r)
    \/ RefreshLock(r)
    \/ RefreshFetch(r)
    \/ RefreshAssign(r)
    \/ GetAll(r)

Next == \E r \in Reqs : RefStep(r)

Spec == InitRef /\ [][Next]_vars

NextExt == Next \/ ExternalWrite

SpecExt == InitRef /\ [][NextExt]_vars

(***************************************************************************)
(* Properties of the reference-table handlers.                             *)
(***************************************************************************)
Returned(r) == req[r].pc = "done"
Quiescent == \A r \in Reqs : req[r].pc \in {"idle", "done"}
Succeeded(r) == req[r].result \in {"Created", "NoContent", "Ok"}

\* C4: once every add/delete issued by the concurrent callers has returned
\* successfully, each reference cache holds exactly the rows of its table.
C4_CacheEqualsStorageWhenQuiescent ==
    (Quiescent /\ \A r \in Reqs : Returned(r) => Succeeded(r))
        => \A T \in RefTables : cache[T] = RefRows(db, T)

\* Two add calls that both arrived while their common key was absent, with
\* no other add or delete of that key issued and no opaque storage failure.
RacingAdds(r1, r2) ==
    /\ r1 # r2
    /\ Returned(r1) /\ Returned(r2)
    /\ req[r1].op = "add" /\ req[r2].op = "add"
    /\ req[r1].tbl = req[r2].tbl /\ req[r1].key = req[r2].key
    /\ req[r1].absent /\ req[r2].absent
    /\ req[r1].fault # "error" /\ req[r2].fault # "error"
    /\ \A q \in Reqs \ {r1, r2} : req[q].key # req[r1].key

\* C5: of two concurrent adds of the same previously absent key exactly one
\* returns CREATED and the other Conflict, and storage holds one row for the key.
C5_ConcurrentAddsOneCreatedOneConflict ==
    \A r1, r2 \in Reqs :
        RacingAdds(r1, r2) =>
            /\ {req[r1].result, req[r2].result} = {"Created", "Conflict"}
            /\ RowCount(db, req[r1].tbl, req[r1].key) = 1

C5_Witness ==
    \E r1, r2 \in Reqs :
        /\ RacingAdds(r1, r2)
        /\ req[r1].tbl = "units"
        /\ req[r1].result = "Created" /\ req[r2].fault = "unique"

\* C6: a step of an add on rarities, name_variants or group_variants changes
\* the cache only by inserting the entry whose row storage already holds, and
\* only in the step that returns CREATED; a failed insert changes no cache.
C6_AddUpdatesCacheOnlyAfterStorage ==
    [][\A r \in Reqs :
          (req[r].op = "add" /\ req[r].tbl \in MapTables /\ req'[r] # req[r]) =>
              /\ cache' # cache =>
                    /\ Entry(req[r].key, req[r].val) \in RefRows(db, req[r].tbl)
                    /\ cache' = [cache EXCEPT ![req[r].tbl] = @ \cup {Entry(req[r].key, req[r].val)}]
                    /\ req'[r].result = "Created"
              /\ req'[r].result \in {"Conflict", "InternalError"} => cache' = cache
              /\ db' # db => cache' = cache]_vars

C6_Witness ==
    \E r \in Reqs :
        /\ req[r].op = "add" /\ req[r].tbl \in MapTables
        /\ Returned(r) /\ req[r].result = "InternalError"
        /\ ~HasKey(cache[req[r].tbl], req[r].key)
        /\ \E q \in Reqs : req[q].op = "add" /\ req[q].tbl \in MapTables
                              /\ req[q].result = "Created"
                              /\ Entry(req[q].key, req[q].val) \in cache[req[q].tbl]

\* C7: a delete writes storage before it touches the cache, changes the cache
\* only if its DELETE affected a row, returns NO_CONTENT and changes nothing
\* when the key has no row, and leaves the cache alone on a storage error.
C7_DeleteChangesCacheOnlyIfAffected ==
    [][\A r \in Reqs :
          (req[r].op = "delete" /\ req'[r] # req[r]) =>
              /\ cache' # cache => req[r].rows > 0 /\ req'[r].result = "NoContent"
              /\ db' # db => cache' = cache /\ req[r].rows = 0 /\ req'[r].rows > 0
              /\ (req'[r].pc = "done" /\ req'[r].rows = 0 /\ req'[r].fault = "none") =>
                    /\ req'[r].result = "NoContent"
                    /\ cache' = cache /\ db' = db
              /\ req'[r].result = "InternalError" => cache' = cache /\ db' = db]_vars

C7_Witness ==
    \E r, q \in Reqs :
        /\ req[r].op = "delete" /\ req[q].op = "delete" /\ r # q
        /\ req[r].tbl = req[q].tbl /\ req[r].key = req[q].key
        /\ Returned(r) /\ Returned(q)
        /\ req[r].rows > 0 /\ req[q].rows = 0
        /\ req[r].result = "NoContent" /\ req[q].result = "NoContent"

\* C8: a request that has written storage and not yet updated its cache holds
\* that cache's write lock, and no get_all runs in between.
C8_WriteLockHeldFromStorageWriteToCacheUpdate ==
    /\ \A r \in Reqs : MidWrite(r) => lock[req[r].tbl].w = r
    /\ \A r \in Reqs : req[r].op = "get_all" => ~req[r].midWrite

\* C9: an add that passed the cache check and was rejected by storage with a
\* uniqueness violation returns Conflict and leaves the key in the cache with
\* the value storage holds.
C9_ConflictReloadsCache ==
    \A r \in Reqs :
        (Returned(r) /\ req[r].op = "add" /\ req[r].tbl \in MapTables /\ req[r].fault = "unique") =>
            /\ req[r].result = "Conflict"
            /\ \E e \in cache[req[r].tbl] : e.key = req[r].key /\ e \in RefRows(db, req[r].tbl)

\* C10: after a request whose reload of the cache failed has returned, and no
\* other write is under way, the cache still equals the rows in storage.
C10_FailedRefreshKeepsCacheInSync ==
    \A r \in Reqs :
        (Returned(r) /\ req[r].fault = "refresh" /\ \A q \in Reqs : ~MidWrite(q))
            => cache[req[r].tbl] = RefRows(db, req[r].tbl)

\* The cache equals storage at quiescence when, in addition, no reload of a
\* sets, groups or units cache failed.
CacheEqualsStorageBarringFailedReload ==
    (Quiescent /\ \A r \in Reqs : Returned(r) => (Succeeded(r) /\ req[r].fault # "refresh"))
        => \A T \in RefTables : cache[T] = RefRows(db, T)

(***************************************************************************)
(* Card creation.  A payload is a deserialized CreateCard; the database    *)
(* the creation handlers run against has the group g1, the unit u1 and the *)
(* set s1, and the caches hold the lookups listed in CardWorldDb.          *)
(***************************************************************************)
\* All sequences over S of length at most n.
SeqUpTo(S, n) == UNION {[1..m -> S] : m \in 0..n}

\* The type-specific data the deserializer accepts for each card type.
NoSpecifics ==
    [kind |-> "None", cost |-> 0, blades |-> 0, score |-> 0, hearts |-> {},
     blade_heart |-> NoVal, special_heart |-> NoVal]

CharacterSpecifics ==
    [kind |-> "Character", cost |-> 2, blades |-> 1, score |-> 0,
     hearts |-> {<<"Pink", 2>>, <<"Red", 1>>}, blade_heart |-> "All", special_heart |-> NoVal]

LiveSpecifics ==
    [kind |-> "Live", cost |-> 0, blades |-> 0, score |-> 3,
     hearts |-> {<<"Gray", 1>>}, blade_heart |-> NoVal, special_heart |-> "Draw"]

SpecificsFor(card_type) ==
    CASE card_type = "Character" -> CharacterSpecifics
      [] card_type = "Live" -> LiveSpecifics
      [] card_type = "Energy" -> NoSpecifics

CardTypes == {"Character", "Live", "Energy"}
CardNames == {"a", "b", "c"}
GroupNames == {"g1", "gv", "gw"}
UnitNames == {"u1", "u2"}
SkillTexts == {"k1"}
SetCodes == {"s1", "s2"}
RarityCodes == {"R", "P"}
ImageUrls == {NoVal, "img"}

CreateCard(name, card_type, groups, units, skills, image_url, set_code, rarity_code) ==
    [name |-> name, card_type |-> card_type, groups |-> groups, units |-> units,
     skills |-> skills, image_url |-> image_url, type_specifics |-> SpecificsFor(card_type),
     series_code |-> "PL", set_code |-> set_code, number_in_set |-> "001",
     rarity_code |-> rarity_code]

\* Payloads that vary the associations, the identity and name, or the printing.
AssocPayloads ==
    {CreateCard("a", "Character", g, u, <<"k1">>, NoVal, "s1", "R") :
        g \in SeqUpTo(GroupNames, MaxGroups), u \in SeqUpTo(UnitNames, MaxUnits)}

IdentityPayloads ==
    {CreateCard(n, t, <<"g1">>, <<"u1">>, <<"k1">>, NoVal, sc, "R") :
        n \in CardNames, t \in CardTypes, sc \in SetCodes}

PrintingPayloads ==
    {CreateCard("a", "Character", <<"gv">>, <<>>, k, img, "s1", rc) :
        k \in SeqUpTo(SkillTexts, MaxSkills), img \in ImageUrls, rc \in RarityCodes}

Payloads == AssocPayloads \cup IdentityPayloads \cup PrintingPayloads

CardWorldDb ==
    WithRefs({Entry("P", "Parallel")},
             {Entry("a", "b"), Entry("b", "c")},
             {Entry("gv", "g1"), Entry("gw", "gx")},
             {Entry("s1", "Set One")},
             {[id |-> 1, name |-> "g1"]},
             {[id |-> 1, name |-> "u1"]})

\* HashMap::get(..).cloned().unwrap_or(default)
Lookup(c, k, default) ==
    IF HasKey(c, k) THEN (CHOOSE e \in c : e.key = k).val ELSE default

\* A lookup that would answer Parallel for an unmapped code.
RarityLookup_DefaultParallel(c, rarity_code) == Lookup(c, rarity_code, "Parallel")

RarityLookup(c, rarity_code) == Lookup(c, rarity_code, "Regular")
\* A creation that stores the payload name as it is.
NameLookup_Identity(c, name) == name

\* A normalisation that would follow a chain of variants for two steps.
NameLookup_Twice(c, name) == Lookup(c, Lookup(c, name, name), Lookup(c, name, name))

NameLookup(c, name) == Lookup(c, name, name)
\* A creation that would look a group up under the string supplied.
GroupLookup_Identity(c, group_name) == group_name

GroupLookup(c, group_name) == Lookup(c, group_name, group_name)

(***************************************************************************)
(* The statements of create_full_card_with_tx, as functions of the         *)
(* transaction's view d of the database.                                    *)
(***************************************************************************)
HasName(rows, name) == \E x \in rows : x.name = name
IdOfName(rows, name) == (CHOOSE x \in rows : x.name = name).id

\* An insert that would add a names row whether or not the name has one.
UpsertName_AlwaysInserts(d, name) ==
    [d EXCEPT !.names = @ \cup {[id |-> MaxId(@) + 1, name |-> name]}]

\* INSERT INTO names (name) VALUES (?) ON CONFLICT(name) DO NOTHING
UpsertName(d, name) ==
    IF HasName(d.names, name) THEN d
    ELSE [d EXCEPT !.names = @ \cup {[id |-> MaxId(@) + 1, name |-> name]}]

\* INSERT INTO cards (..) VALUES (..); the new row's id is last_insert_rowid().
NextCardId(d) == MaxId(d.cards) + 1

\* The identity of a card row or of a payload.
IdentityOf(c) == <<c.series_code, c.set_code, c.number_in_set>>

\* A cards table that would take a second row of the same identity.
CardUniqueViolation_NoConstraint(d, p) == FALSE

\* The uniqueness constraint of cards on (series_code, set_code,
\* number_in_set): "A card with this series, set, and number already exists."
CardUniqueViolation(d, p) == \E c \in d.cards : IdentityOf(c) = IdentityOf(p)

\* The message of the storage's unique-violation error.
UniqueFailed == "UNIQUE constraint failed"

\* The outcomes of INSERT INTO cards for payload p.
CardInsertOutcomes(d, p) ==
    (IF CardUniqueViolation(d, p) THEN {"unique"} ELSE {"ok"}) \cup {"error"}

InsertCard(d, p, name_id) ==
    [d EXCEPT !.cards = @ \cup
        {[id |-> NextCardId(d), series_code |-> p.series_code, set_code |-> p.set_code,
          number_in_set |-> p.number_in_set, name_id |-> name_id,
          card_type |-> p.card_type]}]

\* An insertion that would write every specifics into character_cards.
InsertSpecifics_AlwaysCharacter(d, card_id, ts) ==
    IF ts.kind = "None" THEN d
    ELSE [d EXCEPT !.character_cards = @ \cup
            {[card_id |-> card_id, cost |-> ts.cost, blades |-> ts.blades,
              blade_heart |-> ts.blade_heart]}]

\* INSERT INTO character_cards / live_cards, when the payload has specifics.
InsertSpecifics(d, card_id, ts) ==
    CASE ts.kind = "Character" ->
            [d EXCEPT !.character_cards = @ \cup
                {[card_id |-> card_id, cost |-> ts.cost, blades |-> ts.blades,
                  blade_heart |-> ts.blade_heart]}]
      [] ts.kind = "Live" ->
            [d EXCEPT !.live_cards = @ \cup
                {[card_id |-> card_id, score |-> ts.score, blade_heart |-> ts.blade_heart,
                  special_heart |-> ts.special_heart]}]
      [] OTHER -> d

\* INSERT INTO printings (card_id, rarity_code, rarity_type, image_url)
InsertPrinting(d, card_id, rarity_code, rarity_type, image_url) ==
    [d EXCEPT !.printings = @ \cup
        {[id |-> MaxId(@) + 1, card_id |-> card_id, rarity_code |-> rarity_code,
          rarity_type |-> rarity_type, image_url |-> image_url]}]

\* for (color, count) in hearts { INSERT INTO card_hearts .. }
InsertHearts(d, card_id, ts) ==
    [d EXCEPT !.card_hearts = @ \cup
        {[card_id |-> card_id, color |-> h[1], count |-> h[2]] : h \in ts.hearts}]

\* A link that would first create a group row and point to it.
LinkGroup_CreatesGroup(d, card_id, group_id) ==
    [d EXCEPT !.groups = @ \cup {[id |-> MaxId(@) + 1, name |-> "new"]},
              !.card_groups = Append(@, [card_id |-> card_id,
                                          group_id |-> MaxId(d.groups) + 1])]

\* INSERT INTO card_groups (card_id, group_id)
LinkGroup(d, card_id, group_id) ==
    [d EXCEPT !.card_groups = Append(@, [card_id |-> card_id, group_id |-> group_id])]

\* INSERT INTO card_units (card_id, unit_id)
LinkUnit(d, card_id, unit_id) ==
    [d EXCEPT !.card_units = Append(@, [card_id |-> card_id, unit_id |-> unit_id])]

\* INSERT INTO skills (text) .. ON CONFLICT(text) DO NOTHING
UpsertSkill(d, text) ==
    IF HasName(d.skills, text) THEN d
    ELSE [d EXCEPT !.skills = @ \cup {[id |-> MaxId(@) + 1, name |-> text]}]

\* INSERT INTO card_skills (card_id, skill_id)
LinkSkill(d, card_id, skill_id) ==
    [d EXCEPT !.card_skills = Append(@, [card_id |-> card_id, skill_id |-> skill_id])]

(***************************************************************************)
(* fetch_full_card: the card row, then the eight reads joined together.    *)
(***************************************************************************)
HasId(rows, id) == \E x \in rows : x.id = id
RowOfId(rows, id) == CHOOSE x \in rows : x.id = id

\* The names joined to the links of one card, in the order of the link table.
JoinNames(links, card_id, rows, ref) ==
    LET own == SelectSeq(links, LAMBDA l : l.card_id = card_id /\ HasId(rows, l[ref]))
    IN  [i \in 1..Len(own) |-> RowOfId(rows, own[i][ref]).name]

\* fetch_type_specifics: the row of the table the card type names, if any.
FetchTypeSpecifics(d, id, card_type) ==
    CASE card_type = "Character" /\ (\E c \in d.character_cards : c.card_id = id) ->
            LET c == CHOOSE c \in d.character_cards : c.card_id = id
            IN  [kind |-> "Character", cost |-> c.cost, blades |-> c.blades, score |-> 0,
                 blade_heart |-> c.blade_heart, special_heart |-> NoVal]
      [] card_type = "Live" /\ (\E l \in d.live_cards : l.card_id = id) ->
            LET l == CHOOSE l \in d.live_cards : l.card_id = id
            IN  [kind |-> "Live", cost |-> 0, blades |-> 0, score |-> l.score,
                 blade_heart |-> l.blade_heart, special_heart |-> l.special_heart]
      [] OTHER ->
            [kind |-> "None", cost |-> 0, blades |-> 0, score |-> 0,
             blade_heart |-> NoVal, special_heart |-> NoVal]

\* The fetch_one calls fail with RowNotFound when the card, its name or its set
\* has no row.
FetchFound(d, id) ==
    /\ HasId(d.cards, id)
    /\ HasId(d.names, RowOfId(d.cards, id).name_id)
    /\ HasKey(d.sets, RowOfId(d.cards, id).set_code)

FullCard(d, id) ==
    LET card == RowOfId(d.cards, id) IN
    [id |-> card.id, series_code |-> card.series_code, set_code |-> card.set_code,
     number_in_set |-> card.number_in_set,
     name |-> RowOfId(d.names, card.name_id).name,
     card_type |-> card.card_type,
     set_name |-> Lookup(d.sets, card.set_code, NoVal),
     groups |-> JoinNames(d.card_groups, id, d.groups, "group_id"),
     units |-> JoinNames(d.card_units, id, d.units, "unit_id"),
     skills |-> JoinNames(d.card_skills, id, d.skills, "skill_id"),
     hearts |-> {<<h.color, h.count>> : h \in {x \in d.card_hearts : x.card_id = id}},
     printings |-> {x \in d.printings : x.card_id = id},
     type_specifics |-> FetchTypeSpecifics(d, id, card.card_type)]

(***************************************************************************)
(* The creation handlers: create and create_bulk of handlers/cards.rs over *)
(* create_full_card and create_bulk_cards of db.rs.                        *)
(***************************************************************************)
\* The lock holder id of the creation request.
JobId == NumReq + 1

\* The payload create_full_card_with_tx is working on.
Payload == job.batch[job.idx]

\* A drop that would leave the transaction's writes in the database.
TxDrop_KeepsWrites(d, t) == t

\* Dropping the transaction without commit rolls it back: the database keeps
\* its committed state d, not the transaction's view t.
TxDrop(d, t) == d

\* A batch that would commit after each payload.
BetweenPayloads_Commits(d, t) == t

\* Between two payloads of a batch the one transaction stays open: nothing of
\* its view t reaches the committed state d.
BetweenPayloads(d, t) == d

\* tx.commit()
TxCommit(d, t) == t

\* Err(GroupNotFound | UnitNotFound) => BAD_REQUEST; Err(e) => INTERNAL_SERVER_ERROR
StatusOf(err) ==
    IF err \in {"GroupNotFound", "UnitNotFound"} THEN "BadRequest" ELSE "InternalError"

\* The read guards of the handler are dropped when it returns.
ReleaseReads ==
    [T \in Caches |-> [w |-> IF lock[T].w = JobId THEN 0 ELSE lock[T].w,
                       r |-> lock[T].r \ {JobId}]]

\* An error return that would reload the names cache on its way out.
Abort_RefreshesNames(err, name) ==
    /\ db' = IF tx.open THEN TxDrop(db, tx.d) ELSE db
    /\ tx' = NoTx
    /\ job' = [job EXCEPT !.pc = "done", !.status = StatusOf(err), !.err = err,
                          !.errName = name, !.failedAt = job.pc]
    /\ lock' = ReleaseReads
    /\ cache' = [cache EXCEPT !["names"] = RefRows(db', "names")]
    /\ UNCHANGED req

\* An error return of the handler at the step job.pc: the transaction, if
\* open, is dropped.
Abort(err, name) ==
    /\ db' = IF tx.open THEN TxDrop(db, tx.d) ELSE db
    /\ tx' = NoTx
    /\ job' = [job EXCEPT !.pc = "done", !.status = StatusOf(err), !.err = err,
                          !.errName = name, !.failedAt = job.pc]
    /\ lock' = ReleaseReads
    /\ UNCHANGED <<cache, req>>

\* One more step of the open transaction, onto the view d.
TxStep(d, j) ==
    /\ tx' = [tx EXCEPT !.d = d]
    /\ job' = j
    /\ UNCHANGED <<db, cache, lock, req>>

\* The step that follows the hearts, groups, units of payload p: empty lists
\* have no step.
AfterUnits(p) == IF p.skills # <<>> THEN "skills" ELSE "pushed"
AfterGroups(p) == IF p.units # <<>> THEN "units" ELSE AfterUnits(p)

\* An order that would run the units loop in place of the groups loop.
AfterHearts_UnitsFirst(p) == IF p.units # <<>> THEN "units" ELSE AfterUnits(p)

\* The step that follows the hearts of payload p.
AfterHearts(p) == IF p.groups # <<>> THEN "groups" ELSE AfterGroups(p)

\* A push that would put the new id in front of the earlier ones.
Push_Front(ids, card_id) == <<card_id>> \o ids

\* created_card_ids.push(card_id)
Push(ids, card_id) == Append(ids, card_id)

NewJob(kind, batch) ==
    [NoJob EXCEPT !.kind = kind, !.batch = batch, !.pc = "lock_rarity",
                  !.used = job.used + Len(batch), !.pre = db]

\* POST /cards with one payload, drawn from the set P.
StartCreateFrom(P) ==
    /\ job.pc \in {"idle", "done"}
    /\ job.used < MaxPayloads
    /\ \E p \in P : job' = NewJob("single", <<p>>)
    /\ UNCHANGED <<db, cache, lock, req, tx>>

StartCreate == StartCreateFrom(Payloads)

\* POST /cards/bulk with a batch of payloads.
StartCreateBulkFrom(P) ==
    /\ job.pc \in {"idle", "done"}
    /\ \E n \in 0..MaxBatch :
        /\ job.used + n <= MaxPayloads
        /\ \E batch \in [1..n -> P] : job' = NewJob("bulk", batch)
    /\ UNCHANGED <<db, cache, lock, req, tx>>

StartCreateBulk == StartCreateBulkFrom(Payloads)

ReadLock(pc, T, next) ==
    /\ job.pc = pc
    /\ CanRead(T)
    /\ lock' = [lock EXCEPT ![T].r = @ \cup {JobId}]
    /\ job' = [job EXCEPT !.pc = next]
    /\ UNCHANGED <<db, cache, req, tx>>

\* let rarity_cache = state.rarity_cache.read().await;
LockRarity == ReadLock("lock_rarity", "rarities", "lock_name_variant")
\* let name_variant_cache = state.name_variant_cache.read().await;
LockNameVariant == ReadLock("lock_name_variant", "name_variants", "lock_group_variant")
\* let group_variant_cache = state.group_variant_cache.read().await;
LockGroupVariant == ReadLock("lock_group_variant", "group_variants", "begin")

\* let mut tx = pool.begin().await?;
Begin ==
    /\ job.pc = "begin"
    /\ \E out \in StorageOutcomes :
        IF out = "ok"
        THEN /\ tx' = [open |-> TRUE, d |-> db]
             /\ job' = IF job.batch = <<>> THEN [job EXCEPT !.pc = "commit"]
                       ELSE [job EXCEPT !.pc = "name", !.idx = 1]
             /\ UNCHANGED <<db, cache, lock, req>>
        ELSE Abort("Sqlx", NoVal)

\* 1b, 1c: normalise the name, upsert it into names and read back its id.
UpsertCanonicalName ==
    LET canonical_name == NameLookup(cache["name_variants"], Payload.name)
        d == UpsertName(tx.d, canonical_name)
    IN
    /\ job.pc = "name"
    /\ \E out \in StorageOutcomes :
        IF out = "ok"
        THEN TxStep(d, [job EXCEPT !.pc = "card", !.name_id = IdOfName(d.names, canonical_name)])
        ELSE Abort("Sqlx", NoVal)

\* 1d: insert the base card and take its new id.
InsertBaseCard ==
    /\ job.pc = "card"
    /\ \E out \in CardInsertOutcomes(tx.d, Payload) :
        IF out = "ok"
        THEN TxStep(InsertCard(tx.d, Payload, job.name_id),
                    [job EXCEPT !.pc = "specifics", !.card_id = NextCardId(tx.d)])
        ELSE Abort("Sqlx", IF out = "unique" THEN UniqueFailed ELSE NoVal)

\* 2: insert the Character or Live row; a payload without specifics runs no
\* statement.
InsertTypeSpecifics ==
    /\ job.pc = "specifics"
    /\ \E out \in IF Payload.type_specifics.kind = "None" THEN {"ok"} ELSE StorageOutcomes :
        IF out = "ok"
        THEN TxStep(InsertSpecifics(tx.d, job.card_id, Payload.type_specifics),
                    [job EXCEPT !.pc = "printing"])
        ELSE Abort("Sqlx", NoVal)

\* 1a, 3: the rarity type looked up in the cache, and the single printing.
InsertSinglePrinting ==
    LET rarity_type == RarityLookup(cache["rarities"], Payload.rarity_code) IN
    /\ job.pc = "printing"
    /\ \E out \in StorageOutcomes :
        IF out = "ok"
        THEN TxStep(InsertPrinting(tx.d, job.card_id, Payload.rarity_code, rarity_type,
                                   Payload.image_url),
                    [job EXCEPT !.pc = "hearts"])
        ELSE Abort("Sqlx", NoVal)

\* 4: one card_hearts row per colour of the specifics.
InsertCardHearts ==
    /\ job.pc = "hearts"
    /\ \E out \in IF Payload.type_specifics.hearts = {} THEN {"ok"} ELSE StorageOutcomes :
        IF out = "ok"
        THEN TxStep(InsertHearts(tx.d, job.card_id, Payload.type_specifics),
                    [job EXCEPT !.pc = AfterHearts(Payload), !.li = 1])
        ELSE Abort("Sqlx", NoVal)

\* 5: one iteration of the groups loop.
LinkNextGroup ==
    LET canonical_group_name == GroupLookup(cache["group_variants"], Payload.groups[job.li])
        last == job.li = Len(Payload.groups)
    IN
    /\ job.pc = "groups"
    /\ \E out \in StorageOutcomes :
        IF out # "ok" THEN Abort("Sqlx", NoVal)
        ELSE IF ~HasName(tx.d.groups, canonical_group_name)
        THEN Abort("GroupNotFound", canonical_group_name)
        ELSE TxStep(LinkGroup(tx.d, job.card_id, IdOfName(tx.d.groups, canonical_group_name)),
                    IF last THEN [job EXCEPT !.pc = AfterGroups(Payload), !.li = 1]
                    ELSE [job EXCEPT !.li = @ + 1])

\* 6: one iteration of the units loop.
LinkNextUnit ==
    LET unit_name == Payload.units[job.li]
        last == job.li = Len(Payload.units)
    IN
    /\ job.pc = "units"
    /\ \E out \in StorageOutcomes :
        IF out # "ok" THEN Abort("Sqlx", NoVal)
        ELSE IF ~HasName(tx.d.units, unit_name)
        THEN Abort("UnitNotFound", unit_name)
        ELSE TxStep(LinkUnit(tx.d, job.card_id, IdOfName(tx.d.units, unit_name)),
                    IF last THEN [job EXCEPT !.pc = AfterUnits(Payload), !.li = 1]
                    ELSE [job EXCEPT !.li = @ + 1])

\* 7: one iteration of the skills loop: get-or-create the skill, then link it.
LinkNextSkill ==
    LET skill_text == Payload.skills[job.li]
        last == job.li = Len(Payload.skills)
        d == UpsertSkill(tx.d, skill_text)
    IN
    /\ job.pc = "skills"
    /\ \E out \in StorageOutcomes :
        IF out = "ok"
        THEN TxStep(LinkSkill(d, job.card_id, IdOfName(d.skills, skill_text)),
                    IF last THEN [job EXCEPT !.pc = "pushed", !.li = 1]
                    ELSE [job EXCEPT !.li = @ + 1])
        ELSE Abort("Sqlx", NoVal)

\* Ok(card_id): the id is kept, and a batch goes on to its next payload.
PayloadDone ==
    /\ job.pc = "pushed"
    /\ job' = [job EXCEPT !.ids = Push(@, job.card_id),
                          !.pc = IF job.idx < Len(job.batch) THEN "name" ELSE "commit",
                          !.idx = IF job.idx < Len(job.batch) THEN @ + 1 ELSE @]
    /\ db' = BetweenPayloads(db, tx.d)
    /\ UNCHANGED <<tx, cache, lock, req>>

\* tx.commit().await
Commit ==
    /\ job.pc = "commit"
    /\ \E out \in StorageOutcomes :
        IF out = "ok"
        THEN /\ db' = TxCommit(db, tx.d)
             /\ tx' = NoTx
             /\ job' = [job EXCEPT !.commits = @ + 1, !.li = 1,
                                   !.pc = IF job.ids = <<>> THEN "refresh_lock" ELSE "fetch"]
             /\ UNCHANGED <<cache, lock, req>>
        ELSE Abort("Sqlx", NoVal)

\* fetch_full_card(pool, card_id).await? for the next created id.
FetchCreated ==
    LET id == job.ids[job.li] IN
    /\ job.pc = "fetch"
    /\ \E out \in StorageOutcomes :
        IF out # "ok" THEN Abort("Sqlx", NoVal)
        ELSE IF ~FetchFound(db, id) THEN Abort("RowNotFound", NoVal)
        ELSE /\ job' = [job EXCEPT !.cards = Append(@, FullCard(db, id)),
                                   !.li = @ + 1,
                                   !.pc = IF job.li = Len(job.ids) THEN "refresh_lock" ELSE "fetch"]
             /\ UNCHANGED <<db, cache, lock, req, tx>>

\* let mut names_cache = state.names_cache.write().await;
LockNames ==
    /\ job.pc = "refresh_lock"
    /\ CanWrite("names")
    /\ lock' = [lock EXCEPT !["names"].w = JobId]
    /\ job' = [job EXCEPT !.pc = "refresh"]
    /\ UNCHANGED <<db, cache, req, tx>>

\* *names_cache = db::fetch_all_card_names(..).await.unwrap_or_default();
\* Ok((StatusCode::CREATED, Json(card)))
RefreshNamesAndReturn ==
    /\ job.pc = "refresh"
    /\ \E out \in StorageOutcomes :
        cache' = [cache EXCEPT !["names"] = UnwrapOrDefault(out, RefRows(db, "names"), @)]
    /\ job' = [job EXCEPT !.pc = "done", !.status = "Created"]
    /\ lock' = ReleaseReads
    /\ UNCHANGED <<db, req, tx>>

InitCard ==
    /\ db = CardWorldDb
    /\ cache = LoadCaches(db)
    /\ lock = [T \in Caches |-> NoLock]
    /\ req = [r \in Reqs |-> Idle]
    /\ tx = NoTx
    /\ job = NoJob

NextCard ==
    \/ StartCreate
    \/ StartCreateBulk
    \/ LockRarity
    \/ LockNameVariant
    \/ LockGroupVariant
    \/ Begin
    \/ UpsertCanonicalName
    \/ InsertBaseCard
    \/ InsertTypeSpecifics
    \/ InsertSinglePrinting
    \/ InsertCardHearts
    \/ LinkNextGroup
    \/ LinkNextUnit
    \/ LinkNextSkill
    \/ PayloadDone
    \/ Commit
    \/ FetchCreated
    \/ LockNames
    \/ RefreshNamesAndReturn

SpecCard == InitCard /\ [][NextCard]_vars

(***************************************************************************)
(* Properties of card creation.                                            *)
(***************************************************************************)
\* The canonical form of a name under a variant table: the mapped name, or
\* the name itself when the table has no entry for it.
Canonical(variants, name) ==
    IF \E e \in variants : e.key = name
    THEN (CHOOSE e \in variants : e.key = name).val
    ELSE name

\* The tables that hold the rows of a card.
CardTables(d) ==
    <<d.cards, d.character_cards, d.live_cards, d.printings, d.card_hearts,
      d.card_groups, d.card_units, d.card_skills>>

\* No row of any card table belongs to card id.
NoRowsOfCard(d, id) ==
    /\ \A c \in d.cards : c.id # id
    /\ \A x \in d.character_cards \cup d.live_cards \cup d.printings \cup d.card_hearts :
          x.card_id # id
    /\ \A i \in DOMAIN d.card_groups : d.card_groups[i].card_id # id
    /\ \A i \in DOMAIN d.card_units : d.card_units[i].card_id # id
    /\ \A i \in DOMAIN d.card_skills : d.card_skills[i].card_id # id

\* Payload p names a group whose canonical name, or a unit whose name, has no
\* row in database d.
MissingGroup(d, p) ==
    \E i \in DOMAIN p.groups :
        ~HasName(d.groups, Canonical(d.group_variants, p.groups[i]))
MissingUnit(d, p) == \E i \in DOMAIN p.units : ~HasName(d.units, p.units[i])

ErrorStatuses == {"BadRequest", "InternalError"}
JobDone(kind) == job.pc = "done" /\ job.kind = kind

\* C1: a single creation whose payload names a group or unit that has no row
\* returns an error, and afterwards the card tables equal their value before
\* the call and hold no row of the attempted card.
C1_SingleCreationIsAtomic ==
    (JobDone("single") /\ (MissingGroup(job.pre, job.batch[1]) \/ MissingUnit(job.pre, job.batch[1])))
        => /\ job.status \in ErrorStatuses
           /\ CardTables(db) = CardTables(job.pre)
           /\ NoRowsOfCard(db, NextCardId(job.pre))

\* A single creation that linked its first group and failed on its second,
\* after the card, specifics, printing and hearts were written.
C1_Witness ==
    /\ JobDone("single")
    /\ MissingGroup(job.pre, job.batch[1])
    /\ job.err = "GroupNotFound"
    /\ job.failedAt = "groups"
    /\ job.li = 2
    /\ job.card_id = NextCardId(job.pre)

\* The steps of create_full_card_with_tx.
WithTxSteps ==
    {"name", "card", "specifics", "printing", "hearts", "groups", "units", "skills"}

\* C2: when the steps of payload k of a batch fail, the bulk creation returns
\* that error, no later payload has been started, nothing was committed and
\* the database equals its value before the call.
C2_BulkCreationIsAtomic ==
    (JobDone("bulk") /\ job.failedAt \in WithTxSteps)
        => LET k == job.idx
               p == job.batch[k]
           IN
           /\ job.status = IF job.err = "Sqlx" THEN "InternalError" ELSE "BadRequest"
           /\ job.err = "GroupNotFound" =>
                 /\ ~HasName(job.pre.groups, job.errName)
                 /\ \E i \in DOMAIN p.groups :
                       Canonical(job.pre.group_variants, p.groups[i]) = job.errName
           /\ job.err = "UnitNotFound" =>
                 /\ ~HasName(job.pre.units, job.errName)
                 /\ \E i \in DOMAIN p.units : p.units[i] = job.errName
           /\ job.err \in {"GroupNotFound", "UnitNotFound", "Sqlx"}
           /\ Len(job.ids) = k - 1
           /\ job.commits = 0
           /\ db = job.pre

\* A batch of two whose first payload ran all its steps and whose second
\* failed on a missing unit.
C2_Witness ==
    /\ JobDone("bulk")
    /\ Len(job.batch) = 2
    /\ job.idx = 2
    /\ Len(job.ids) = 1
    /\ job.err = "UnitNotFound"
    /\ job.failedAt = "units"

\* Two sequences with the same elements, each as many times.
SameItems(s, t) ==
    /\ Len(s) = Len(t)
    /\ \A x \in {s[i] : i \in DOMAIN s} \cup {t[i] : i \in DOMAIN t} :
          Cardinality({i \in DOMAIN s : s[i] = x}) = Cardinality({i \in DOMAIN t : t[i] = x})

\* Aggregate c carries the fields of payload p, with the name and the groups
\* in canonical form under the variant tables of database d.
RoundTrip(d, p, c) ==
    /\ c.series_code = p.series_code
    /\ c.set_code = p.set_code
    /\ c.number_in_set = p.number_in_set
    /\ c.card_type = p.card_type
    /\ SameItems(c.units, p.units)
    /\ SameItems(c.skills, p.skills)
    /\ c.hearts = p.type_specifics.hearts
    /\ c.type_specifics =
          [kind |-> p.type_specifics.kind, cost |-> p.type_specifics.cost,
           blades |-> p.type_specifics.blades, score |-> p.type_specifics.score,
           blade_heart |-> p.type_specifics.blade_heart,
           special_heart |-> p.type_specifics.special_heart]
    /\ Cardinality(c.printings) = 1
    /\ \A pr \in c.printings :
          pr.rarity_code = p.rarity_code /\ pr.image_url = p.image_url
    /\ c.name = Canonical(d.name_variants, p.name)
    /\ SameItems(c.groups,
                 [i \in DOMAIN p.groups |-> Canonical(d.group_variants, p.groups[i])])

\* A single creation, run without a storage failure, of a payload whose
\* groups and units exist.
CreatedWithRefs ==
    /\ JobDone("single")
    /\ job.err # "Sqlx"
    /\ ~MissingGroup(job.pre, job.batch[1])
    /\ ~MissingUnit(job.pre, job.batch[1])

\* The creation returned an aggregate that a fetch of its id returns again
\* and that carries the payload.
ReturnsRoundTrip ==
    /\ job.status = "Created"
    /\ Len(job.cards) = 1
    /\ FetchFound(db, job.cards[1].id)
    /\ FullCard(db, job.cards[1].id) = job.cards[1]
    /\ RoundTrip(job.pre, job.batch[1], job.cards[1])

\* C3 as stated: every payload whose groups and units exist is created and
\* fetched back with its fields.
C3_RoundTripForExistingGroupsAndUnits == CreatedWithRefs => ReturnsRoundTrip

\* C3: a payload whose groups, units and set exist is created and the fetch of
\* the returned id yields its fields, one printing with its rarity code and
\* image url, its canonical name and its canonical groups.
C3_RoundTripForExistingRefsAndSet ==
    (CreatedWithRefs /\ HasKey(job.pre.sets, job.batch[1].set_code)) => ReturnsRoundTrip

\* A created card whose payload name and group were variants and whose
\* printing has an image and a mapped rarity code.
C3_Witness ==
    /\ JobDone("single")
    /\ job.status = "Created"
    /\ job.batch[1].name = "a"
    /\ job.batch[1].groups = <<"gv">>
    /\ job.batch[1].image_url = "img"
    /\ job.batch[1].rarity_code = "P"
    /\ job.cards[1].name = "b"
    /\ job.cards[1].groups = <<"g1">>

(***************************************************************************)
(* The defaulting lookups: GET /rarities/:code, and the lookups of a       *)
(* creation, over caches that map or do not map the keys looked up.        *)
(***************************************************************************)
\* The requests that call get_by_code.
LookupReqs == {1}

\* GET /rarities/:code arrives.
StartGetByCode(r) ==
    /\ req[r].pc = "idle"
    /\ \E code \in RarityCodes :
        req' = [req EXCEPT ![r] = [Idle EXCEPT !.op = "get_by_code", !.tbl = "rarities",
                                               !.key = code, !.pc = "start"]]
    /\ UNCHANGED <<db, cache, lock, tx, job>>

\* let cache = state.rarity_cache.read().await;
\* Json(cache.get(&code).cloned().unwrap_or(RarityType::Regular))
GetByCode(r) ==
    /\ req[r].pc = "start"
    /\ req[r].op = "get_by_code"
    /\ CanRead("rarities")
    /\ req' = [req EXCEPT ![r] =
          [Return(r, "Ok", "none") EXCEPT !.val = RarityLookup(cache["rarities"], req[r].key)]]
    /\ UNCHANGED <<db, cache, lock, tx, job>>

\* Databases whose variant and rarity tables map some, all or none of the keys.
LookupWorlds ==
    {WithRefs(ra, nv, gv, {Entry("s1", "Set One")},
              {[id |-> 1, name |-> "g1"]}, {[id |-> 1, name |-> "u1"]}) :
        ra \in SUBSET {Entry("P", "Parallel"), Entry("R", "Parallel")},
        nv \in {{}, {Entry("a", "b"), Entry("b", "c")}},
        gv \in {{}, {Entry("gv", "g1"), Entry("gw", "gx")}}}

\* Payloads that vary the three keys a creation looks up.
LookupPayloads ==
    {CreateCard(n, "Character", <<g>>, <<"u1">>, <<"k1">>, NoVal, "s1", rc) :
        n \in CardNames, g \in GroupNames, rc \in RarityCodes}

InitLookup ==
    /\ db \in LookupWorlds
    /\ cache = LoadCaches(db)
    /\ lock = [T \in Caches |-> NoLock]
    /\ req = [r \in Reqs |-> Idle]
    /\ tx = NoTx
    /\ job = NoJob

NextLookup ==
    \/ \E r \in LookupReqs : StartGetByCode(r) \/ GetByCode(r)
    \/ StartCreateFrom(LookupPayloads)
    \/ LockRarity
    \/ LockNameVariant
    \/ LockGroupVariant
    \/ Begin
    \/ UpsertCanonicalName
    \/ InsertBaseCard
    \/ InsertTypeSpecifics
    \/ InsertSinglePrinting
    \/ InsertCardHearts
    \/ LinkNextGroup
    \/ LinkNextUnit
    \/ LinkNextSkill
    \/ PayloadDone
    \/ Commit
    \/ FetchCreated
    \/ LockNames
    \/ RefreshNamesAndReturn

SpecLookup == InitLookup /\ [][NextLookup]_vars

\* The value a table maps key to, or default when it maps it to nothing.
MappedOr(table, key, default) ==
    IF \E e \in table : e.key = key
    THEN (CHOOSE e \in table : e.key = key).val
    ELSE default

\* The steps of a payload that come after its name, printing, first group.
AfterName == {"card", "specifics", "printing", "hearts", "groups", "units", "skills", "pushed"}
AfterPrinting == {"hearts", "groups", "units", "skills", "pushed"}
AfterGroupLinks == {"units", "skills", "pushed"}

\* C11: get_by_code answers the mapped rarity type, or Regular for a code the
\* cache does not map; a creation stores the name and links the group its
\* caches map the payload's name and group to, or the payload's own strings
\* when they are not mapped, and its printing row carries the mapped rarity
\* type or Regular.
C11_LookupsDefault ==
    /\ \A r \in Reqs : (req[r].pc = "done" /\ req[r].op = "get_by_code") =>
          req[r].val = MappedOr(cache["rarities"], req[r].key, "Regular")
    /\ (tx.open /\ job.pc \in AfterName) =>
          /\ HasId(tx.d.names, job.name_id)
          /\ RowOfId(tx.d.names, job.name_id).name =
                MappedOr(cache["name_variants"], Payload.name, Payload.name)
    /\ (tx.open /\ job.pc \in AfterPrinting) =>
          \E pr \in tx.d.printings :
              /\ pr.card_id = job.card_id
              /\ pr.rarity_type = MappedOr(cache["rarities"], Payload.rarity_code, "Regular")
    /\ (tx.open /\ job.pc \in AfterGroupLinks) =>
          \A i \in DOMAIN Payload.groups :
              \E l \in {tx.d.card_groups[n] : n \in DOMAIN tx.d.card_groups} :
                  /\ l.card_id = job.card_id
                  /\ RowOfId(tx.d.groups, l.group_id).name =
                        MappedOr(cache["group_variants"], Payload.groups[i], Payload.groups[i])
    /\ (job.pc = "done" /\ job.err = "GroupNotFound") =>
          \E i \in DOMAIN job.batch[job.idx].groups :
              job.errName = MappedOr(cache["group_variants"], job.batch[job.idx].groups[i],
                                     job.batch[job.idx].groups[i])

\* get_by_code has answered Regular for an unmapped code while a creation with
\* an unmapped name, an unmapped rarity code and an unmapped group has linked
\* its group.
C11_Witness ==
    /\ \E r \in Reqs :
          /\ req[r].pc = "done" /\ req[r].op = "get_by_code"
          /\ ~HasKey(cache["rarities"], req[r].key)
          /\ req[r].val = "Regular"
    /\ tx.open /\ job.pc \in AfterGroupLinks
    /\ ~HasKey(cache["name_variants"], Payload.name)
    /\ ~HasKey(cache["rarities"], Payload.rarity_code)
    /\ ~HasKey(cache["group_variants"], Payload.groups[1])

(***************************************************************************)
(* GET /cards/:id: get_by_id over fetch_full_card, read by read.  The      *)
(* eight reads of try_join! complete in any order; the first one to fail   *)
(* ends the call.                                                          *)
(***************************************************************************)
\* The requests that call get_by_id, and the ids they ask for.
FetchReqs == {1}
FetchIds == 1..(MaxPayloads + 1)

\* The eight reads joined by try_join!.
ReadNames ==
    {"name", "set_name", "groups", "units", "skills", "hearts", "printings", "type_specifics"}

\* fetch_name_for_card and fetch_set_name use fetch_one, which fails with
\* RowNotFound on an empty result; the other reads accept an empty result.
ReadFound(d, card, rd) ==
    CASE rd = "name" -> HasId(d.names, card.name_id)
      [] rd = "set_name" -> HasKey(d.sets, card.set_code)
      [] OTHER -> TRUE

ReadOutcomes(d, card, rd) ==
    (IF ReadFound(d, card, rd) THEN {"ok"} ELSE {"RowNotFound"}) \cup {"error"}

\* The value one read returns.
ReadValue(d, card, rd) == FullCard(d, card.id)[rd]

\* try_join! returns the error of a read as soon as that read has failed.
FailsJoin_Never(out) == FALSE

FailsJoin(out) == out # "ok"

\* Ok(FullCard { base: BaseCard { .. }, set_name, groups, .. })
Assemble(card, got) ==
    [id |-> card.id, series_code |-> card.series_code, set_code |-> card.set_code,
     number_in_set |-> card.number_in_set, name |-> got["name"],
     card_type |-> card.card_type, set_name |-> got["set_name"], groups |-> got["groups"],
     units |-> got["units"], skills |-> got["skills"], hearts |-> got["hearts"],
     printings |-> got["printings"], type_specifics |-> got["type_specifics"]]

\* get_by_id: Err(RowNotFound) => NOT_FOUND, Err(e) => INTERNAL_SERVER_ERROR
StatusOfFetch(out) == IF out = "RowNotFound" THEN "NotFound" ELSE "InternalError"

\* GET /cards/:id arrives.
StartGetById(r) ==
    /\ req[r].pc = "idle"
    /\ \E id \in FetchIds :
        req' = [req EXCEPT ![r] = [Idle EXCEPT !.op = "get_by_id", !.tbl = "cards",
                                               !.id = id, !.pc = "card"]]
    /\ UNCHANGED <<db, cache, lock, tx, job>>

\* Query 1: SELECT * FROM cards WHERE id = ?, fetch_one
FetchCardRow(r) ==
    LET id == req[r].id
        found == HasId(db.cards, id)
    IN
    /\ req[r].pc = "card"
    /\ \E out \in (IF found THEN {"ok"} ELSE {"RowNotFound"}) \cup {"error"} :
        req' = [req EXCEPT ![r] =
            IF out = "ok"
            THEN [req[r] EXCEPT !.pc = "join", !.row = <<RowOfId(db.cards, id)>>]
            ELSE [Return(r, StatusOfFetch(out), out) EXCEPT !.absent = ~found]]
    /\ UNCHANGED <<db, cache, lock, tx, job>>

\* One of the joined reads completes; the last one to succeed completes the
\* join and the aggregate is assembled.
CompleteRead(r) ==
    LET card == req[r].row[1] IN
    /\ req[r].pc = "join"
    /\ \E rd \in ReadNames \ req[r].reads : \E out \in ReadOutcomes(db, card, rd) :
        LET reads == req[r].reads \cup {rd}
            got == [x \in reads |-> IF x = rd THEN ReadValue(db, card, rd) ELSE req[r].got[x]]
            fault == IF out = "ok" THEN req[r].fault ELSE out
        IN
        req' = [req EXCEPT ![r] =
            IF FailsJoin(out) THEN Return(r, StatusOfFetch(out), out)
            ELSE IF reads = ReadNames
            THEN [Return(r, "Ok", fault) EXCEPT !.reads = reads, !.got = got,
                                                !.card = <<Assemble(card, got)>>]
            ELSE [req[r] EXCEPT !.reads = reads, !.got = got, !.fault = fault]]
    /\ UNCHANGED <<db, cache, lock, tx, job>>

\* Payloads of the three card types; the set of the Live one has no row.
FetchPayloads ==
    {CreateCard("a", "Character", <<"gv">>, <<"u1">>, <<"k1">>, "img", "s1", "P"),
     CreateCard("b", "Live", <<"g1">>, <<>>, <<>>, NoVal, "s2", "R"),
     CreateCard("c", "Energy", <<>>, <<>>, <<>>, NoVal, "s1", "R")}

NextFetch ==
    \/ \E r \in FetchReqs : StartGetById(r) \/ FetchCardRow(r) \/ CompleteRead(r)
    \/ StartCreateFrom(FetchPayloads)
    \/ LockRarity
    \/ LockNameVariant
    \/ LockGroupVariant
    \/ Begin
    \/ UpsertCanonicalName
    \/ InsertBaseCard
    \/ InsertTypeSpecifics
    \/ InsertSinglePrinting
    \/ InsertCardHearts
    \/ LinkNextGroup
    \/ LinkNextUnit
    \/ LinkNextSkill
    \/ PayloadDone
    \/ Commit
    \/ FetchCreated
    \/ LockNames
    \/ RefreshNamesAndReturn

SpecFetch == InitCard /\ [][NextFetch]_vars

\* A get_by_id request that has returned.
Fetched(r) == req[r].op = "get_by_id" /\ req[r].pc = "done"

\* C12: get_by_id holds an aggregate only once all eight reads have
\* succeeded, and then it is made of what they returned; a call in which a
\* read failed returns that failure and no aggregate.
C12_NoPartialAggregate ==
    \A r \in Reqs : req[r].op = "get_by_id" =>
        /\ req[r].card # <<>> =>
              /\ req[r].pc = "done" /\ req[r].result = "Ok"
              /\ req[r].reads = ReadNames
              /\ req[r].fault = "none"
              /\ req[r].card = <<Assemble(req[r].row[1], req[r].got)>>
        /\ (Fetched(r) /\ req[r].fault # "none") =>
              /\ req[r].card = <<>>
              /\ req[r].result = IF req[r].fault = "RowNotFound" THEN "NotFound"
                                 ELSE "InternalError"
        /\ (Fetched(r) /\ req[r].result = "Ok") => req[r].card # <<>>

\* A call whose last read failed after the seven others had succeeded.
C12_Witness ==
    \E r \in Reqs :
        /\ Fetched(r)
        /\ req[r].fault = "error"
        /\ Cardinality(req[r].reads) = Cardinality(ReadNames) - 1
        /\ req[r].card = <<>>

\* C13: barring a storage failure, get_by_id answers not-found exactly when
\* the cards table had no row for the id.
C13_NotFoundIffNoCardRow ==
    \A r \in Reqs : (Fetched(r) /\ req[r].fault # "error") =>
        (req[r].result = "NotFound" <=> req[r].absent)

(***************************************************************************)
(* Deserialization of the request body into a CreateCard.  A               *)
(* card_identifier is a sequence of tokens: the hyphen, and pieces of text *)
(* that hold no hyphen.  An optional JSON field is a set: empty when the   *)
(* field is missing, else holding its value.                                *)
(***************************************************************************)
IdTokens == {"-", "PL", "s1"}

RECURSIVE JoinTokens(_)
\* The string a token sequence stands for.
JoinTokens(s) == IF s = <<>> THEN "" ELSE Head(s) \o JoinTokens(Tail(s))

HyphensOf(s) == {i \in DOMAIN s : s[i] = "-"}
FirstHyphen(s) == CHOOSE i \in HyphensOf(s) : \A j \in HyphensOf(s) : i <= j
LastHyphen(s) == CHOOSE i \in HyphensOf(s) : \A j \in HyphensOf(s) : j <= i

\* str::rsplitn(2, '-'): the text after the last hyphen, then the text before
\* it; the whole text when it has no hyphen.
RSplitN2_AtFirst(s) ==
    IF HyphensOf(s) = {} THEN <<s>>
    ELSE <<SubSeq(s, FirstHyphen(s) + 1, Len(s)), SubSeq(s, 1, FirstHyphen(s) - 1)>>

RSplitN2(s) ==
    IF HyphensOf(s) = {} THEN <<s>>
    ELSE <<SubSeq(s, LastHyphen(s) + 1, Len(s)), SubSeq(s, 1, LastHyphen(s) - 1)>>

RECURSIVE SplitN(_, _)
\* str::splitn(n, '-'): at most n pieces, the last one holding the rest.
SplitN(s, n) ==
    IF n <= 1 \/ HyphensOf(s) = {} THEN <<s>>
    ELSE <<SubSeq(s, 1, FirstHyphen(s) - 1)>>
            \o SplitN(SubSeq(s, FirstHyphen(s) + 1, Len(s)), n - 1)

\* The messages of serde::de::Error::custom, written without their backquotes.
FormatError == "field card_identifier must be in the format 'series-set-number-rarity'."
HeartsError ==
    "hearts field is required and must not be empty for Character and Live cards."
MismatchError == "Mismatch between card_type and the data provided in type_specifics."

\* The four components of a card_identifier, or the format error.
ParseIdentifier(card_identifier) ==
    LET parts == RSplitN2(card_identifier) IN
    IF Len(parts) # 2 THEN [ok |-> FALSE, error |-> FormatError, parts |-> <<>>]
    ELSE LET base_parts == SplitN(parts[2], 3) IN
         IF Len(base_parts) # 3 THEN [ok |-> FALSE, error |-> FormatError, parts |-> <<>>]
         ELSE [ok |-> TRUE, error |-> "",
               parts |-> <<base_parts[1], base_parts[2], base_parts[3], parts[1]>>]

\* Option<.> of a JSON field; its value when present.
None == {}
Some(v) == {v}
ValueOf(opt) == CHOOSE v \in opt : TRUE

\* #[serde(untagged)] CreateCardTypeSpecifics, flattened as an Option: the
\* Character variant when cost, blades and hearts are present, else the Live
\* variant when score and hearts are present, else None.
IsCharacterJson(h) == h.cost # None /\ h.blades # None /\ h.hearts # None
IsLiveJson(h) == h.score # None /\ h.hearts # None

TypeSpecificsOf(h) ==
    IF IsCharacterJson(h)
    THEN [kind |-> "Character", cost |-> ValueOf(h.cost), blades |-> ValueOf(h.blades),
          score |-> 0, hearts |-> ValueOf(h.hearts), blade_heart |-> NoVal,
          special_heart |-> NoVal]
    ELSE IF IsLiveJson(h)
    THEN [kind |-> "Live", cost |-> 0, blades |-> 0, score |-> ValueOf(h.score),
          hearts |-> ValueOf(h.hearts), blade_heart |-> NoVal, special_heart |-> NoVal]
    ELSE NoSpecifics

\* A Character card that needs no hearts.
Validate_HeartsOptional(card_type, ts) ==
    IF card_type = ts.kind \/ (card_type = "Energy" /\ ts.kind = "None") THEN ""
    ELSE IF card_type = "Energy" THEN MismatchError ELSE HeartsError

\* match (helper.card_type, &helper.type_specifics): "" when accepted.
Validate(card_type, ts) ==
    CASE card_type = "Character" /\ ts.kind = "Character" /\ ts.hearts # {} -> ""
      [] card_type = "Live" /\ ts.kind = "Live" /\ ts.hearts # {} -> ""
      [] card_type = "Energy" /\ ts.kind = "None" -> ""
      [] card_type \in {"Character", "Live"} -> HeartsError
      [] OTHER -> MismatchError

\* impl Deserialize for CreateCard: the identifier first, then the match.
Deserialize(h) ==
    LET id == ParseIdentifier(h.card_identifier)
        ts == TypeSpecificsOf(h)
    IN
    IF ~id.ok THEN [ok |-> FALSE, error |-> id.error, parts |-> <<>>, card |-> <<>>]
    ELSE IF Validate(h.card_type, ts) # ""
    THEN [ok |-> FALSE, error |-> Validate(h.card_type, ts), parts |-> <<>>, card |-> <<>>]
    ELSE [ok |-> TRUE, error |-> "", parts |-> id.parts,
          card |-> <<[name |-> h.name, card_type |-> h.card_type, groups |-> h.groups,
                      units |-> h.units, skills |-> h.skills, image_url |-> h.image_url,
                      type_specifics |-> ts,
                      series_code |-> JoinTokens(id.parts[1]),
                      set_code |-> JoinTokens(id.parts[2]),
                      number_in_set |-> JoinTokens(id.parts[3]),
                      rarity_code |-> JoinTokens(id.parts[4])]>>]

\* The JSON body of a creation request.
Helper(card_identifier, card_type, cost, blades, score, hearts) ==
    [card_identifier |-> card_identifier, name |-> "a", card_type |-> card_type,
     groups |-> <<"gv">>, units |-> <<"u1">>, skills |-> <<"k1">>, image_url |-> NoVal,
     cost |-> cost, blades |-> blades, score |-> score, hearts |-> hearts]

\* Bodies that vary the identifier, and bodies that vary the card type and
\* the presence of the type-specific fields.
IdentifierBodies ==
    {Helper(id, "Energy", None, None, None, None) : id \in SeqUpTo(IdTokens, MaxIdLen)}

TypeBodies ==
    {Helper(<<"PL", "-", "s1", "-", "s1", "-", "PL">>, t, c, b, sc, h) :
        t \in CardTypes, c \in {None, Some(2)}, b \in {None, Some(1)},
        sc \in {None, Some(3)}, h \in {None, Some({}), Some({<<"Pink", 1>>})}}

Bodies == IdentifierBodies \cup TypeBodies

\* POST /cards arrives with its body.
StartPost ==
    /\ job.pc \in {"idle", "done"}
    /\ job.used < MaxBodies
    /\ \E h \in Bodies :
        job' = [NoJob EXCEPT !.kind = "single", !.pc = "deserialize", !.raw = <<h>>,
                             !.used = job.used + 1, !.pre = db]
    /\ UNCHANGED <<db, cache, lock, req, tx>>

\* AxumJson(payload): AxumJson<CreateCard>: the handler body runs only with a
\* deserialized payload; a rejected body is answered by the extractor.
DeserializeBody ==
    LET res == Deserialize(job.raw[1]) IN
    /\ job.pc = "deserialize"
    /\ job' = IF res.ok
              THEN [job EXCEPT !.pc = "lock_rarity", !.batch = res.card, !.parts = res.parts]
              ELSE [job EXCEPT !.pc = "done", !.status = "ValidationError",
                               !.err = "Validation", !.errName = res.error,
                               !.failedAt = "deserialize"]
    /\ UNCHANGED <<db, cache, lock, req, tx>>

NextParse ==
    \/ StartPost
    \/ DeserializeBody
    \/ LockRarity
    \/ LockNameVariant
    \/ LockGroupVariant
    \/ Begin
    \/ UpsertCanonicalName
    \/ InsertBaseCard
    \/ InsertTypeSpecifics
    \/ InsertSinglePrinting
    \/ InsertCardHearts
    \/ LinkNextGroup
    \/ LinkNextUnit
    \/ LinkNextSkill
    \/ PayloadDone
    \/ Commit
    \/ FetchCreated
    \/ LockNames
    \/ RefreshNamesAndReturn

SpecParse == InitCard /\ [][NextParse]_vars

\* The request body has been through the deserializer.
Deserialized == job.raw # <<>> /\ job.pc # "deserialize"
Accepted == Deserialized /\ job.parts # <<>>
Rejected == Deserialized /\ job.parts = <<>>
RejectedWith(message) ==
    /\ Rejected
    /\ job.status = "ValidationError"
    /\ job.errName = message
    /\ job.failedAt = "deserialize"

\* The i-th hyphen of a text, counted from the left.
NthHyphen(s, i) ==
    CHOOSE h \in HyphensOf(s) : Cardinality({g \in HyphensOf(s) : g <= h}) = i

\* C14: a card_identifier with fewer than three hyphens is rejected with the
\* validation error that names the 'series-set-number-rarity' format, and one
\* with at least three hyphens is never rejected for its format; an accepted
\* identifier gives series_code the text before its first hyphen, set_code the
\* text between its first and second hyphens, rarity_code the text after its
\* last hyphen and number_in_set what lies between, so that the four joined
\* with hyphens are the input; with a body that is otherwise valid, at least
\* three hyphens are enough to be accepted.
C14_IdentifierParsing ==
    Deserialized =>
        LET h == job.raw[1]
            id == h.card_identifier
            n == Cardinality(HyphensOf(id))
        IN
        /\ n < 3 => RejectedWith(FormatError)
        /\ n >= 3 => job.errName # FormatError
        /\ (n >= 3 /\ h \in IdentifierBodies) => Accepted
        /\ Accepted =>
            /\ n >= 3
            /\ job.parts[1] = SubSeq(id, 1, NthHyphen(id, 1) - 1)
            /\ job.parts[2] = SubSeq(id, NthHyphen(id, 1) + 1, NthHyphen(id, 2) - 1)
            /\ job.parts[3] = SubSeq(id, NthHyphen(id, 2) + 1, NthHyphen(id, n) - 1)
            /\ job.parts[4] = SubSeq(id, NthHyphen(id, n) + 1, Len(id))
            /\ job.parts[1] \o <<"-">> \o job.parts[2] \o <<"-">> \o job.parts[3]
                    \o <<"-">> \o job.parts[4] = id
            /\ job.batch[1].series_code = JoinTokens(job.parts[1])
            /\ job.batch[1].set_code = JoinTokens(job.parts[2])
            /\ job.batch[1].number_in_set = JoinTokens(job.parts[3])
            /\ job.batch[1].rarity_code = JoinTokens(job.parts[4])

\* An identifier whose number_in_set holds a hyphen has been accepted.
C14_Witness ==
    /\ Accepted
    /\ Cardinality(HyphensOf(job.raw[1].card_identifier)) = 4
    /\ HyphensOf(job.parts[3]) # {}
    /\ job.batch[1].number_in_set = "s1-s1"

\* Nothing of the creation has started: no row written, no transaction
\* begun, no cache lock held.
Untouched ==
    /\ db = job.pre
    /\ tx = NoTx
    /\ \A T \in Caches : lock[T] = NoLock

\* C15: an accepted Character or Live payload has specifics of its own kind
\* and a non-empty hearts map; a Character or Live payload whose hearts are
\* empty or missing is rejected with the validation error that mentions the
\* hearts; and a rejection comes with nothing of the creation started: the
\* rejecting step changes no row, transaction, cache or lock, and none was
\* touched before it.
C15_CharacterAndLiveNeedHearts ==
    /\ [](Deserialized /\ job.raw[1].card_type \in {"Character", "Live"} =>
            LET h == job.raw[1] IN
            /\ Accepted =>
                /\ job.batch[1].type_specifics.kind = h.card_type
                /\ job.batch[1].type_specifics.hearts # {}
                /\ h.hearts # None
                /\ ValueOf(h.hearts) = job.batch[1].type_specifics.hearts
            /\ (h.hearts \in {None, Some({})}
                    /\ Cardinality(HyphensOf(h.card_identifier)) >= 3)
                => RejectedWith(HeartsError))
    /\ [](job.pc = "deserialize" \/ Rejected => Untouched)
    /\ [][job.pc = "deserialize" /\ job'.parts = <<>>
            => UNCHANGED <<db, cache, lock, tx>>]_vars

\* A Live payload with a score and an empty hearts map has been rejected.
C15_Witness ==
    /\ RejectedWith(HeartsError)
    /\ job.raw[1].card_type = "Live"
    /\ job.raw[1].score # None
    /\ job.raw[1].hearts = Some({})
    /\ Untouched

\* The body carries a type-specific field, or a hearts map.
CarriesSpecifics(h) == h.cost # None \/ h.blades # None \/ h.score # None
CarriesHearts(h) == h.hearts # None

\* C16: an accepted Energy payload carries neither type-specific fields nor
\* a hearts map and has type_specifics absent; an Energy payload that carries
\* type-specific fields, or a hearts map, is rejected with a validation error.
C16_EnergyCarriesNoSpecifics ==
    Deserialized /\ job.raw[1].card_type = "Energy" =>
        LET h == job.raw[1] IN
        /\ Accepted =>
            /\ ~CarriesSpecifics(h)
            /\ ~CarriesHearts(h)
            /\ job.batch[1].type_specifics = NoSpecifics
        /\ CarriesSpecifics(h) \/ CarriesHearts(h) =>
            Rejected /\ job.status = "ValidationError"

\* Every accepted Energy payload has type_specifics absent.
AcceptedEnergyHasNoSpecifics ==
    Accepted /\ job.raw[1].card_type = "Energy" =>
        job.batch[1].type_specifics = NoSpecifics

\* No two rows of cards have the same identity.
UniqueIdentities(cards) ==
    \A c1, c2 \in cards : IdentityOf(c1) = IdentityOf(c2) => c1 = c2

\* Payload i of the job repeats the identity of a card of database d, or of
\* an earlier payload of its batch.
RepeatsIdentity(d, i) ==
    \/ CardUniqueViolation(d, job.batch[i])
    \/ \E k \in 1..(i - 1) : IdentityOf(job.batch[k]) = IdentityOf(job.batch[i])

\* C17: no two committed rows of cards share (series_code, set_code,
\* number_in_set); no step commits a card whose identity was already
\* committed; and a single or bulk creation with a payload that repeats a
\* committed identity, or an identity of its own batch, returns an error and
\* commits nothing.
C17_CardIdentityIsUnique ==
    /\ [](UniqueIdentities(db.cards))
    /\ [][\A c \in db'.cards \ db.cards : ~CardUniqueViolation(db, c)]_vars
    /\ [](job.pc = "done" /\ (\E i \in DOMAIN job.batch : RepeatsIdentity(job.pre, i))
            => job.status \in ErrorStatuses /\ db = job.pre)

\* A batch whose second payload repeats the identity of its first has failed
\* at the insertion of the second card, and nothing of it is committed.
C17_Witness ==
    /\ JobDone("bulk")
    /\ Len(job.batch) = 2
    /\ IdentityOf(job.batch[1]) = IdentityOf(job.batch[2])
    /\ job.idx = 2
    /\ job.failedAt = "card"
    /\ db = job.pre

\* The links of table `links` that were added to those of `before`.
AddedLinks(links, before) == {links[i] : i \in (DOMAIN links) \ (DOMAIN before)}

\* C18: from the start of a single or bulk creation to its return, whether
\* it succeeds or fails, the groups and units tables keep the rows they had
\* when it started, in the database and inside its transaction, and every
\* card_groups / card_units link it adds refers to a Group / Unit row that
\* was there when it started.
C18_CreationCreatesNoGroupOrUnit ==
    job.kind # "none" =>
        /\ db.groups = job.pre.groups
        /\ db.units = job.pre.units
        /\ tx.open => tx.d.groups = job.pre.groups /\ tx.d.units = job.pre.units
        /\ \A l \in AddedLinks(db.card_groups, job.pre.card_groups) :
              HasId(job.pre.groups, l.group_id)
        /\ \A l \in AddedLinks(db.card_units, job.pre.card_units) :
              HasId(job.pre.units, l.unit_id)
        /\ tx.open =>
              /\ \A l \in AddedLinks(tx.d.card_groups, job.pre.card_groups) :
                    HasId(job.pre.groups, l.group_id)
              /\ \A l \in AddedLinks(tx.d.card_units, job.pre.card_units) :
                    HasId(job.pre.units, l.unit_id)

\* A creation has returned after committing a group link and a unit link.
C18_Witness ==
    /\ job.pc = "done"
    /\ job.status = "Created"
    /\ AddedLinks(db.card_groups, job.pre.card_groups) # {}
    /\ AddedLinks(db.card_units, job.pre.card_units) # {}

\* The rows of a table that belong to card id.
RowsOfCard(rows, id) == {x \in rows : x.card_id = id}

\* C19: every committed card has exactly one printing row; a Character card
\* has exactly one character_cards row and no live_cards row, a Live card
\* exactly one live_cards row and no character_cards row, an Energy card
\* neither; a Character or Live card has at least one card_hearts row and an
\* Energy card has none.
C19_RowsMatchCardType ==
    \A c \in db.cards :
        /\ Cardinality(RowsOfCard(db.printings, c.id)) = 1
        /\ Cardinality(RowsOfCard(db.character_cards, c.id))
              = IF c.card_type = "Character" THEN 1 ELSE 0
        /\ Cardinality(RowsOfCard(db.live_cards, c.id))
              = IF c.card_type = "Live" THEN 1 ELSE 0
        /\ c.card_type \in {"Character", "Live"} => RowsOfCard(db.card_hearts, c.id) # {}
        /\ c.card_type = "Energy" => RowsOfCard(db.card_hearts, c.id) = {}

\* Two creations have committed a Live card and an Energy card.
C19_Witness ==
    /\ job.pc = "done"
    /\ job.status = "Created"
    /\ \E c1, c2 \in db.cards : c1.card_type = "Live" /\ c2.card_type = "Energy"
    /\ \A i \in DOMAIN job.batch :
          Validate(job.batch[i].card_type, job.batch[i].type_specifics) = ""

(***************************************************************************)
(* Creations that name groups and units without a row, next to             *)
(* GET /cards/:id.                                                          *)
(***************************************************************************)
MissingPayloads ==
    {CreateCard("a", "Character", g, u, <<"k1">>, NoVal, sc, "R") :
        g \in {<<"g1">>, <<"gw">>, <<"gz", "gw">>, <<"gw", "gz">>, <<"g1", "gz">>},
        u \in {<<"u1">>, <<"u2">>, <<"gv">>}, sc \in SetCodes}

NextMissing ==
    \/ \E r \in FetchReqs : StartGetById(r) \/ FetchCardRow(r) \/ CompleteRead(r)
    \/ StartCreateFrom(MissingPayloads)
    \/ LockRarity
    \/ LockNameVariant
    \/ LockGroupVariant
    \/ Begin
    \/ UpsertCanonicalName
    \/ InsertBaseCard
    \/ InsertTypeSpecifics
    \/ InsertSinglePrinting
    \/ InsertCardHearts
    \/ LinkNextGroup
    \/ LinkNextUnit
    \/ LinkNextSkill
    \/ PayloadDone
    \/ Commit
    \/ FetchCreated
    \/ LockNames
    \/ RefreshNamesAndReturn

SpecMissing == InitCard /\ [][NextMissing]_vars

\* The creation has returned, and not with an opaque storage failure.
ReturnedBarringStorageFailure ==
    /\ JobDone("single")
    /\ ~(job.err = "Sqlx" /\ job.errName # UniqueFailed)

\* The canonical name of the first group of payload p, in payload order,
\* that has no row in database d; the first unit likewise.
FirstMissingGroup(d, p) ==
    LET missing == {i \in DOMAIN p.groups :
                        ~HasName(d.groups, Canonical(d.group_variants, p.groups[i]))}
        first == CHOOSE i \in missing : \A k \in missing : i <= k
    IN  Canonical(d.group_variants, p.groups[first])

FirstMissingUnit(d, p) ==
    LET missing == {i \in DOMAIN p.units : ~HasName(d.units, p.units[i])}
        first == CHOOSE i \in missing : \A k \in missing : i <= k
    IN  p.units[first]

\* The creation failed with the NotFound error of kind err that carries name.
FailedNotFound(err, name) ==
    /\ job.err = err
    /\ job.errName = name
    /\ job.status = "BadRequest"
    /\ db = job.pre
    /\ ~HasId(db.cards, job.card_id)

\* While the failed creation is the last one, a get_by_id for the id it had
\* been assigned that reads the cards table answers not-found (or, on a
\* storage failure, an internal error).
FetchOfAttemptedIdIsNotFound ==
    [][\A r \in FetchReqs :
        (/\ JobDone("single")
         /\ job.err \in {"GroupNotFound", "UnitNotFound"}
         /\ req[r].pc = "card"
         /\ req[r].id = job.card_id
         /\ req'[r] # req[r])
        => /\ req'[r].pc = "done"
           /\ req'[r].absent
           /\ req'[r].result = IF req'[r].fault = "error" THEN "InternalError"
                               ELSE "NotFound"]_vars

\* Barring storage failures, a creation that names a group without a row
\* fails with the NotFound error carrying the first such group's name, also
\* when a unit is missing too, and one that names only a unit without a row
\* fails with the NotFound error carrying the unit's name; nothing is
\* committed and a following fetch of the attempted id answers not-found.
C20_MissingGroupOrUnitIsNotFound ==
    /\ [](ReturnedBarringStorageFailure =>
            LET p == job.batch[1] IN
            /\ MissingGroup(job.pre, p) =>
                  FailedNotFound("GroupNotFound", FirstMissingGroup(job.pre, p))
            /\ MissingUnit(job.pre, p) /\ ~MissingGroup(job.pre, p) =>
                  FailedNotFound("UnitNotFound", FirstMissingUnit(job.pre, p)))
    /\ FetchOfAttemptedIdIsNotFound

\* C20: barring storage failures, a creation whose identity is not yet
\* present and that names a group without a row fails with the NotFound
\* error carrying the canonical name of the first such group in payload
\* order, also when a unit is missing too; one that names only a unit
\* without a row fails with the NotFound error carrying the unit's name;
\* nothing is committed and a following fetch of the id the attempt had been
\* assigned answers not-found.
C20_MissingGroupOrUnitOfNewIdentityIsNotFound ==
    /\ [](ReturnedBarringStorageFailure /\ ~CardUniqueViolation(job.pre, job.batch[1]) =>
            LET p == job.batch[1] IN
            /\ MissingGroup(job.pre, p) =>
                  FailedNotFound("GroupNotFound", FirstMissingGroup(job.pre, p))
            /\ MissingUnit(job.pre, p) /\ ~MissingGroup(job.pre, p) =>
                  FailedNotFound("UnitNotFound", FirstMissingUnit(job.pre, p)))
    /\ FetchOfAttemptedIdIsNotFound

\* After a committed card, a creation naming two groups and a unit without a
\* row has failed on its first group, and a fetch of the id it had been
\* assigned has answered not-found.
C20_Witness ==
    /\ JobDone("single")
    /\ job.batch[1].groups = <<"gz", "gw">>
    /\ job.batch[1].units = <<"u2">>
    /\ FailedNotFound("GroupNotFound", "gz")
    /\ job.card_id = 2
    /\ \E r \in FetchReqs :
          Fetched(r) /\ req[r].id = job.card_id /\ req[r].result = "NotFound"

\* The creation returned because INSERT INTO cards met the uniqueness
\* constraint.
CardInsertWasUniqueViolation ==
    job.pc = "done" /\ job.failedAt = "card" /\ job.errName = UniqueFailed

\* C21: a single or bulk creation whose card insert raised a uniqueness
\* violation returns Conflict, a status no opaque storage failure gets, and
\* nothing of its unit of work is committed.
C21_CardUniqueViolationIsConflict ==
    CardInsertWasUniqueViolation =>
        /\ job.status = "Conflict"
        /\ job.status # StatusOf("Sqlx")
        /\ db = job.pre

\* A uniqueness violation of the card insert leaves nothing committed.
CardUniqueViolationCommitsNothing ==
    CardInsertWasUniqueViolation => db = job.pre

(***************************************************************************)
(* Single and bulk creations over a database whose sets table has a row    *)
(* for every set code, so that a batch of two cards can be fetched back.   *)
(***************************************************************************)
BulkWorldDb == [CardWorldDb EXCEPT !.sets = @ \cup {Entry("s2", "Set Two")}]

BulkPayloads ==
    {CreateCard(n, t, <<"gv">>, u, <<"k1">>, NoVal, sc, "R") :
        n \in {"b", "c"}, t \in {"Character", "Energy"},
        u \in {<<"u1">>, <<"u2">>}, sc \in SetCodes}

InitBulk ==
    /\ db = BulkWorldDb
    /\ cache = LoadCaches(db)
    /\ lock = [T \in Caches |-> NoLock]
    /\ req = [r \in Reqs |-> Idle]
    /\ tx = NoTx
    /\ job = NoJob

NextBulk ==
    \/ StartCreateFrom(BulkPayloads)
    \/ StartCreateBulkFrom(BulkPayloads)
    \/ LockRarity
    \/ LockNameVariant
    \/ LockGroupVariant
    \/ Begin
    \/ UpsertCanonicalName
    \/ InsertBaseCard
    \/ InsertTypeSpecifics
    \/ InsertSinglePrinting
    \/ InsertCardHearts
    \/ LinkNextGroup
    \/ LinkNextUnit
    \/ LinkNextSkill
    \/ PayloadDone
    \/ Commit
    \/ FetchCreated
    \/ LockNames
    \/ RefreshNamesAndReturn

SpecBulk == InitBulk /\ [][NextBulk]_vars

\* The steps of a creation up to and including its commit.
UpToCommit == WithTxSteps \cup {"begin", "commit"}

C23_BulkReturnsAggregatesInPayloadOrder ==
    /\ JobDone("bulk") /\ job.status = "Created" =>
        /\ Len(job.cards) = Len(job.batch)
        /\ Len(job.ids) = Len(job.batch)
        /\ \A i \in DOMAIN job.batch :
              /\ job.cards[i].id = job.ids[i]
              /\ ~HasId(job.pre.cards, job.ids[i])
              /\ job.cards[i] = FullCard(db, job.ids[i])
              /\ RoundTrip(job.pre, job.batch[i], job.cards[i])
        /\ \A i, k \in DOMAIN job.batch : job.ids[i] = job.ids[k] => i = k
    /\ job.cards # <<>> \/ job.pc = "fetch" =>
        /\ job.commits = 1
        /\ ~tx.open
        /\ \A i \in DOMAIN job.ids : HasId(db.cards, job.ids[i])

\* A batch of two different payloads has returned its two aggregates.
C23_Witness ==
    /\ JobDone("bulk")
    /\ job.status = "Created"
    /\ Len(job.batch) = 2
    /\ job.batch[1].set_code = "s2" /\ job.batch[1].name = "b"
    /\ job.batch[2].set_code = "s1" /\ job.batch[2].name = "c"
    /\ job.batch[1].card_type # job.batch[2].card_type
    /\ job.cards[1].set_code = "s2"
    /\ job.cards[2].set_code = "s1"

\* The names row that card id of database d references.
NameRowsOf(d, id) == {n \in d.names : n.id = RowOfId(d.cards, id).name_id}

\* C24: names holds at most one row per string; every committed card
\* references one names row, the one of the canonical form of the name in
\* its payload, so that cards whose names have the same canonical form share
\* a row; names only gains rows for strings it did not hold, and a creation
\* whose canonical names all had a row adds none.
C24_CanonicalNamesCollapse ==
    /\ [](\A n1, n2 \in db.names : (n1.name = n2.name \/ n1.id = n2.id) => n1 = n2)
    /\ [](\A c \in db.cards : Cardinality(NameRowsOf(db, c.id)) = 1)
    /\ [](job.commits = 1 =>
            /\ \A i \in DOMAIN job.batch : \A n \in NameRowsOf(db, job.ids[i]) :
                  n.name = Canonical(job.pre.name_variants, job.batch[i].name)
            /\ (\A i \in DOMAIN job.batch :
                    HasName(job.pre.names, Canonical(job.pre.name_variants, job.batch[i].name)))
                => db.names = job.pre.names)
    /\ [][/\ db.names \subseteq db'.names
          /\ \A n \in db'.names \ db.names : ~HasName(db.names, n.name)]_vars

\* A card named "b" has been committed after a card named "c": both
\* reference the one names row "c".
C24_Witness ==
    /\ job.pc = "done"
    /\ job.commits = 1
    /\ Len(job.batch) = 1
    /\ job.batch[1].name = "b"
    /\ HasName(job.pre.names, "c")
    /\ db.names = job.pre.names
    /\ Cardinality(db.cards) = 2
    /\ \A c1, c2 \in db.cards : c1.name_id = c2.name_id

\* The snapshot GET /names serves, and the rows of the names table.
NamesSnapshot == cache["names"]
NamesStored == RefRows(db, "names")

\* C25: once a single or bulk creation has returned successfully, the names
\* snapshot equals the rows of the names table.
C25_NamesSnapshotEqualsStorageAfterCreation ==
    job.pc = "done" /\ job.status = "Created" => NamesSnapshot = NamesStored

\* After a successful creation the names snapshot equals the names table, or
\* is empty.
NamesSnapshotIsStorageOrEmpty ==
    job.pc = "done" /\ job.status = "Created" => NamesSnapshot \in {NamesStored, {}}

(***************************************************************************)
(* One client that sends its requests on a reference table one after the   *)
(* other, each after the response to the one before, as the endpoint tests *)
(* do.                                                                      *)
(***************************************************************************)
\* Request r is sent once every request before it has been answered.
SeqStart(r) ==
    /\ \A q \in Reqs : q < r => req[q].pc = "done"
    /\ \/ StartAdd(r)
       \/ StartDelete(r)
       \/ StartGetAll(r)

NextSeq ==
    \E r \in Reqs :
        \/ SeqStart(r)
        \/ MapLock(r)
        \/ MapAddCheck(r)
        \/ MapAddInsert(r)
        \/ MapAddUpdate(r)
        \/ MapDeleteExec(r)
        \/ MapDeleteUpdate(r)
        \/ RefreshAddInsert(r)
        \/ RefreshDeleteExec(r)
        \/ RefreshLock(r)
        \/ RefreshFetch(r)
        \/ RefreshAssign(r)
        \/ GetAll(r)

SpecSeq == InitRef /\ [][NextSeq]_vars

\* The first request was a successful add of a key and the second a
\* successful delete of the same key of the same table; the third, if sent,
\* is a get_all.
AddThenDelete ==
    /\ Returned(1) /\ Returned(2)
    /\ req[3].op \in {"none", "get_all"}
    /\ req[1].op = "add" /\ req[1].result = "Created"
    /\ req[2].op = "delete" /\ req[2].result = "NoContent"
    /\ req[2].tbl = req[1].tbl /\ req[2].key = req[1].key

\* Storage and the caches have the values the behaviour started with.
AsAtStart == db \in {EmptyDb, SeededDb} /\ cache = LoadCaches(db)

\* C26: after a successful add of an absent key followed by a successful
\* delete of the same key, storage and the snapshot of get_all equal their
\* values before the add.
C26_AddThenDeleteRoundTrip ==
    AddThenDelete =>
        /\ AsAtStart
        /\ (Returned(3) /\ req[3].op = "get_all") =>
              req[3].fetched = LoadCaches(db)[req[3].tbl]

\* The round trip holds when no reload of the cache failed.
AddThenDeleteRoundTripBarringFailedReload ==
    (AddThenDelete /\ req[1].fault # "refresh" /\ req[2].fault # "refresh") => AsAtStart

\* Request r is an add whose key had a row in its table when it arrived.
AddOfPresentKey(r) == req[r].op = "add" /\ ~req[r].absent

\* C27: an add whose key is present in its reference table changes neither
\* storage nor any cache at any of its steps, so no row is gained and the
\* value mapped to the key stays, and, unless the storage fails for a reason
\* of its own, it returns Conflict.
C27_AddOfPresentKeyIsConflict ==
    /\ [](\A r \in Reqs : (AddOfPresentKey(r) /\ Returned(r) /\ req[r].fault # "error")
            => req[r].result = "Conflict")
    /\ [](\A r \in Reqs : (AddOfPresentKey(r) /\ Returned(r))
            => req[r].result \in {"Conflict", "InternalError"})
    /\ [][\A r \in Reqs : (AddOfPresentKey(r) /\ req'[r] # req[r])
            => db' = db /\ cache' = cache]_vars

\* An add of the rarity code P with a new value has returned Conflict, and
\* P is still mapped to Parallel in storage and in the cache.
C27_Witness ==
    \E r \in Reqs :
        /\ AddOfPresentKey(r) /\ Returned(r)
        /\ req[r].tbl = "rarities" /\ req[r].key = "P" /\ req[r].val = "Regular"
        /\ req[r].result = "Conflict"
        /\ Entry("P", "Parallel") \in cache["rarities"]
        /\ RefRows(db, "rarities") = {Entry("P", "Parallel")}

(***************************************************************************)
(* create_app_state_with_pool: the seven caches are loaded one after the   *)
(* other, each load returning early on an error, and the application state *)
(* is built from them.  Until it is built there are no caches.            *)
(***************************************************************************)
StartupOrder ==
    <<"rarities", "name_variants", "group_variants", "sets", "groups", "units", "names">>

\* The databases the application can start on: each table empty or seeded.
StartupWorlds ==
    {[WithRefs(ra, nv, gv, se, gr, un) EXCEPT !.names = na] :
        ra \in {{}, {Entry("P", "Parallel")}},
        nv \in {{}, {Entry("a", "b")}},
        gv \in {{}, {Entry("gv", "g1")}},
        se \in {{}, {Entry("s1", "Set One")}},
        gr \in {{}, {[id |-> 1, name |-> "g1"]}},
        un \in {{}, {[id |-> 1, name |-> "u1"]}},
        na \in {{}, {[id |-> 1, name |-> "b"], [id |-> 2, name |-> "c"]}}}

InitStartup ==
    /\ db \in StartupWorlds
    /\ cache = <<>>
    /\ lock = [T \in Caches |-> NoLock]
    /\ req = [r \in Reqs |->
                IF r = 1 THEN [Idle EXCEPT !.op = "startup", !.pc = "load"] ELSE Idle]
    /\ tx = NoTx
    /\ job = NoJob

\* A load that would leave its cache empty.
LoadTable_Empty(d, T) == {}

\* fetch_all of table T at startup.
LoadTable(d, T) == RefRows(d, T)

\* The next load; `?` returns its error, and the last load is followed by
\* Ok(ApiState { .. }).
LoadNext(r) ==
    LET n == Cardinality(req[r].reads) + 1
        T == StartupOrder[n]
        got == [x \in req[r].reads \cup {T} |->
                    IF x = T THEN LoadTable(db, T) ELSE req[r].got[x]]
    IN
    /\ req[r].op = "startup"
    /\ req[r].pc = "load"
    /\ \E out \in StorageOutcomes :
        IF out # "ok"
        THEN /\ req' = [req EXCEPT ![r] = Return(r, "InternalError", out)]
             /\ UNCHANGED cache
        ELSE IF n < Len(StartupOrder)
        THEN /\ req' = [req EXCEPT ![r].reads = @ \cup {T}, ![r].got = got]
             /\ UNCHANGED cache
        ELSE /\ req' = [req EXCEPT ![r] =
                    [Return(r, "Ok", "none") EXCEPT !.reads = @ \cup {T}, !.got = got]]
             /\ cache' = got
    /\ UNCHANGED <<db, lock, tx, job>>

NextStartup == \E r \in Reqs : LoadNext(r)

SpecStartup == InitStartup /\ [][NextStartup]_vars

\* C28: when create_app_state_with_pool has succeeded each of the seven
\* caches equals the content of its table; when one of its loads has failed
\* there is no application state.
C28_StartupLoadsEveryCache ==
    \A r \in Reqs : (req[r].op = "startup" /\ Returned(r)) =>
        /\ req[r].result = "Ok" =>
              /\ DOMAIN cache = Caches
              /\ \A T \in Caches : cache[T] = RefRows(db, T)
              /\ cache = LoadCaches(db)
        /\ req[r].result # "Ok" => cache = <<>> /\ req[r].fault = "error"
        /\ req[r].fault = "error" => req[r].result # "Ok"

\* The startup has succeeded on a database with rows in every table.
C28_Witness ==
    /\ req[1].op = "startup" /\ Returned(1) /\ req[1].result = "Ok"
    /\ \A T \in Caches : cache[T] # {}

\* The body is of a Character card with Live specifics, or of a Live card
\* with Character specifics, and its hearts map is not empty.
OtherKindWithHearts(h) ==
    LET ts == TypeSpecificsOf(h) IN
    /\ \/ h.card_type = "Character" /\ ts.kind = "Live"
       \/ h.card_type = "Live" /\ ts.kind = "Character"
    /\ ts.hearts # {}

\* C29: a Character (Live) payload whose specifics are of the other kind, with
\* a non-empty hearts map, is rejected with the validation error that names
\* the mismatch between card_type and the specifics provided.
C29_OtherKindIsRejectedAsMismatch ==
    (Deserialized /\ OtherKindWithHearts(job.raw[1])) => RejectedWith(MismatchError)

\* Such a payload is rejected, with the message about the hearts field.
OtherKindIsRejectedAsMissingHearts ==
    (Deserialized /\ OtherKindWithHearts(job.raw[1])) =>
        /\ RejectedWith(HeartsError)
        /\ Untouched

\* The creation has returned the error of a post-commit fetch_full_card.
FailedAfterCommit == job.pc = "done" /\ job.failedAt = "fetch"

\* C30: an error of create_full_card or create_bulk_cards does not imply a
\* rollback: when the commit has succeeded and a fetch_full_card after it
\* fails, the call returns an error, every created card keeps its committed
\* rows, and the failing step leaves the names cache as it was.
C30_ErrorAfterCommitKeepsRows ==
    /\ [](FailedAfterCommit =>
            /\ job.status \in ErrorStatuses
            /\ job.commits = 1
            /\ ~tx.open
            /\ \A i \in DOMAIN job.ids :
                  /\ \E c \in db.cards : c.id = job.ids[i]
                  /\ ~(\E c \in job.pre.cards : c.id = job.ids[i])
                  /\ ~NoRowsOfCard(db, job.ids[i])
            /\ lock["names"].w # JobId)
    /\ [][(job.pc = "fetch" /\ job'.pc = "done") =>
            /\ job'.failedAt = "fetch"
            /\ cache' = cache
            /\ db' = db]_vars

\* A creation has failed after its commit, and the names table holds the
\* name of the created card while the names cache lacks it.
C30_Witness ==
    /\ FailedAfterCommit
    /\ job.status = "InternalError"
    /\ \E n \in db.names :
          /\ n \notin job.pre.names
          /\ Entry(n.name, NoVal) \in NamesStored \ NamesSnapshot
          /\ \E c \in db.cards : c.id = job.ids[1] /\ c.name_id = n.id

(***************************************************************************)
(* The get-or-create rows of a failed creation.                            *)
(***************************************************************************)
\* The creation has returned an error from a step before its commit
\* succeeded.
FailedBeforeCommit ==
    /\ job.pc = "done"
    /\ job.status \in ErrorStatuses
    /\ job.failedAt # "fetch"

\* The open transaction has inserted a names row or a skills row.
InsertedGetOrCreateRow ==
    /\ tx.open
    /\ tx.d.names # job.pre.names \/ tx.d.skills # job.pre.skills

ConcReqs == {1, 2}

ConcPayloads ==
    {CreateCard("a", "Character", <<"gv">>, <<"u1">>, <<"k1">>, NoVal, "s1", "P"),
     CreateCard("b", "Energy", <<"gw">>, <<>>, <<>>, NoVal, "s1", "R")}

\* The steps of create and create_bulk after the request has arrived.
CreationStep ==
    \/ LockRarity
    \/ LockNameVariant
    \/ LockGroupVariant
    \/ Begin
    \/ UpsertCanonicalName
    \/ InsertBaseCard
    \/ InsertTypeSpecifics
    \/ InsertSinglePrinting
    \/ InsertCardHearts
    \/ LinkNextGroup
    \/ LinkNextUnit
    \/ LinkNextSkill
    \/ PayloadDone
    \/ Commit
    \/ FetchCreated
    \/ LockNames
    \/ RefreshNamesAndReturn

\* The steps of add, delete and get_all of a HashMap cache after the request
\* has arrived.
MapStep(r) ==
    \/ MapLock(r)
    \/ MapAddCheck(r)
    \/ MapAddInsert(r)
    \/ MapAddUpdate(r)
    \/ MapDeleteExec(r)
    \/ MapDeleteUpdate(r)
    \/ GetAll(r)

\* A request on one of the three HashMap caches arrives.
StartMap(r) ==
    /\ StartAdd(r) \/ StartDelete(r) \/ StartGetAll(r)
    /\ req'[r].tbl \in MapTables

NextConc ==
    \/ StartCreateFrom(ConcPayloads)
    \/ StartCreateBulkFrom(ConcPayloads)
    \/ CreationStep
    \/ \E r \in ConcReqs : StartMap(r) \/ MapStep(r)

SpecConc == InitCard /\ [][NextConc]_vars

\* The creation holds its three read guards.
HoldsReads == \A T \in MapTables : JobId \in lock[T].r

\* The creation is between the begin of its transaction and its response.
InCreation ==
    job.pc \notin {"idle", "done", "lock_rarity", "lock_name_variant", "lock_group_variant"}

\* C32: from before its transaction begins until its response a single or
\* bulk creation holds the read locks of the rarity, name-variant and
\* group-variant caches, no request holds a write lock on them, and no step
\* taken meanwhile changes any of the three caches.
C32_CreationSeesOneSnapshot ==
    /\ [](InCreation =>
            /\ HoldsReads
            /\ \A T \in MapTables : lock[T].w = 0
            /\ \A r \in Reqs : MidWrite(r) => req[r].tbl \notin MapTables)
    /\ [](tx.open => InCreation)
    /\ [][InCreation => \A T \in MapTables : cache'[T] = cache[T]]_vars

\* The second payload of a batch is being worked on while an add or delete
\* on one of the three caches waits for its write lock.
C32_Witness ==
    /\ InCreation /\ tx.open
    /\ job.kind = "bulk" /\ job.idx = 2
    /\ \E r \in Reqs :
          /\ req[r].op \in {"add", "delete"}
          /\ req[r].tbl \in MapTables
          /\ req[r].pc = "start"
          /\ ~CanWrite(req[r].tbl)

(***************************************************************************)
(* Progress of the handlers under the scheduling of the runtime: a task    *)
(* that can take its next step takes it.  tokio::sync::RwLock queues its   *)
(* waiters first-in first-out, so a task that waits for a lock which is    *)
(* free again and again is granted it: strong fairness.                    *)
(***************************************************************************)
LiveReqs == {1}

NextLive ==
    \/ StartCreateFrom(ConcPayloads)
    \/ StartCreateBulkFrom(ConcPayloads)
    \/ CreationStep
    \/ \E r \in LiveReqs : StartMap(r) \/ MapStep(r)

SpecLive ==
    /\ InitCard
    /\ [][NextLive]_vars
    /\ SF_vars(CreationStep)
    /\ \A r \in LiveReqs : SF_vars(MapStep(r))

\* The order in which a creation takes its locks.
LockOrder == <<"rarities", "name_variants", "group_variants", "names">>

\* The cache locks the creation holds, and those request r holds.
HeldByJob == {T \in Caches : JobId \in lock[T].r \/ lock[T].w = JobId}
HeldBy(r) == {T \in Caches : r \in lock[T].r \/ lock[T].w = r}

\* The steps at which the creation asks for a lock.
LockSteps == {"lock_rarity", "lock_name_variant", "lock_group_variant", "refresh_lock"}

JobInFlight == job.pc \notin {"idle", "done"}
ReqInFlight(r) == req[r].pc \notin {"idle", "done"}

\* Some operation in flight can take a step.
SomeStepEnabled == ENABLED (CreationStep \/ \E r \in LiveReqs : MapStep(r))

ChainWorldDb ==
    WithRefs({Entry("P", "Parallel")},
             {Entry("a", "b"), Entry("b", "c")},
             {Entry("gv", "gw"), Entry("gw", "g1")},
             {Entry("s1", "Set One")},
             {[id |-> 1, name |-> "g1"], [id |-> 2, name |-> "gw"]},
             {[id |-> 1, name |-> "u1"]})

InitChain ==
    /\ db = ChainWorldDb
    /\ cache = LoadCaches(db)
    /\ lock = [T \in Caches |-> NoLock]
    /\ req = [r \in Reqs |-> Idle]
    /\ tx = NoTx
    /\ job = NoJob

SpecChain == InitChain /\ [][NextLookup]_vars

\* One and two applications of a variant table to a string.
Once(table, s) == MappedOr(table, s, s)
Twice(table, s) == Once(table, Once(table, s))

\* The name of the committed card id, and the names of its groups.
StoredName(d, id) == RowOfId(d.names, RowOfId(d.cards, id).name_id).name
StoredGroups(d, id) ==
    {RowOfId(d.groups, d.card_groups[n].group_id).name :
        n \in {m \in DOMAIN d.card_groups : d.card_groups[m].card_id = id}}

\* A single creation has committed its card.
CommittedSingle ==
    /\ JobDone("single")
    /\ job.commits = 1
    /\ Len(job.ids) = 1
    /\ HasId(db.cards, job.ids[1])

\* C34: a creation stores the name, and links the groups, that one lookup of
\* the variant cache gives; where the table maps that result again, what is
\* stored is not the result of the second lookup.
C34_CanonicalisationIsOneLookup ==
    CommittedSingle =>
        LET p == job.batch[1]
            id == job.ids[1]
        IN
        /\ StoredName(db, id) = Once(db.name_variants, p.name)
        /\ Twice(db.name_variants, p.name) # Once(db.name_variants, p.name) =>
              StoredName(db, id) # Twice(db.name_variants, p.name)
        /\ StoredGroups(db, id) = {Once(db.group_variants, p.groups[i]) : i \in DOMAIN p.groups}
        /\ \A i \in DOMAIN p.groups :
              Twice(db.group_variants, p.groups[i]) # Once(db.group_variants, p.groups[i]) =>
                  Twice(db.group_variants, p.groups[i]) \notin StoredGroups(db, id)

\* The card of name a and group gv is stored under b and linked to gw, while
\* two lookups would give c and g1.
C34_Witness ==
    /\ CommittedSingle
    /\ job.batch[1].name = "a" /\ job.batch[1].groups = <<"gv">>
    /\ StoredName(db, job.ids[1]) = "b"
    /\ StoredGroups(db, job.ids[1]) = {"gw"}
    /\ Twice(db.name_variants, "a") = "c"
    /\ Twice(db.group_variants, "gv") = "g1"
    /\ ~HasName(db.names, "c")

(***************************************************************************)
(* Printings and later changes of the rarity table.                        *)
(***************************************************************************)
\* Request r takes a step of add or delete on the rarity table.
RarityWriteStep(r) ==
    /\ req[r].op \in {"add", "delete"}
    /\ req[r].tbl = "rarities"
    /\ req'[r] # req[r]

\* C35: no step of an add or delete of a rarity mapping changes a printings
\* row, and no step but the commit of a creation changes the printings
\* table; a stored rarity_type is one of the two rarity types whatever the
\* rarity table says afterwards.
C35_RarityTypeIsFixedAtCreation ==
    /\ [][(\E r \in Reqs : RarityWriteStep(r)) => db'.printings = db.printings]_vars
    /\ [][db'.printings # db.printings =>
            /\ job.pc = "commit"
            /\ db.printings \subseteq db'.printings]_vars
    /\ [](\A pr \in db.printings : pr.rarity_type \in {"Regular", "Parallel"})

\* The printing of rarity code P was stored as Parallel, the mapping of P has
\* been deleted since, and the lookup of P now answers Regular.
C35_Witness ==
    /\ \E pr \in db.printings :
          /\ pr.rarity_code = "P"
          /\ pr.rarity_type = "Parallel"
          /\ RarityLookup(cache["rarities"], pr.rarity_code) = "Regular"
    /\ ~HasKey(db.rarities, "P")
    /\ \E r \in Reqs :
          /\ req[r].op = "delete" /\ req[r].tbl = "rarities" /\ req[r].key = "P"
          /\ req[r].pc = "done" /\ req[r].result = "NoContent"

(***************************************************************************)
(* The name a NotFound error of a creation carries.                        *)
(***************************************************************************)
\* The single creation has failed with the NotFound error of kind err, at
\* the li-th group or unit of its payload.
FailedOn(err) == JobDone("single") /\ job.err = err /\ job.status = "BadRequest"

\* C36: a GroupNotFound error carries the name the group-variant cache maps
\* the failing group of the payload to, which for a variant is not the
\* string supplied; a UnitNotFound error carries the failing unit of the
\* payload exactly as supplied, whatever the variant tables map it to.
C36_NotFoundCarriesCanonicalGroupAndSuppliedUnit ==
    /\ FailedOn("GroupNotFound") =>
          LET supplied == job.batch[1].groups[job.li] IN
          /\ job.failedAt = "groups"
          /\ job.errName = MappedOr(cache["group_variants"], supplied, supplied)
          /\ ~HasName(db.groups, job.errName)
          /\ HasKey(cache["group_variants"], supplied) => job.errName # supplied
    /\ FailedOn("UnitNotFound") =>
          LET supplied == job.batch[1].units[job.li] IN
          /\ job.failedAt = "units"
          /\ job.errName = supplied
          /\ ~HasName(db.units, supplied)
    /\ (JobDone("single") /\ job.err \in {"GroupNotFound", "UnitNotFound"}) =>
          job.status = "BadRequest"

\* The creation that names the variant gw has failed with the name gx.
C36_Witness ==
    /\ FailedOn("GroupNotFound")
    /\ job.batch[1].groups[job.li] = "gw"
    /\ job.errName = "gx"
    /\ HasKey(cache["group_variants"], "gw")
    /\ ~HasName(db.groups, "gx")

\* The creation that names the unit gv, a key of the group-variant cache, has
\* failed with the name gv.
UnitGvHasFailedAsSupplied ==
    /\ FailedOn("UnitNotFound")
    /\ job.batch[1].units[job.li] = "gv"
    /\ job.errName = "gv"
    /\ MappedOr(cache["group_variants"], "gv", "gv") = "g1"
====
